---- MODULE Spec2Model ----
(***************************************************************************)
(* A model of the MiniScript interpreter of src/mini_script.py: the lexer, *)
(* the recursive-descent parser, the tree-walking evaluator with its       *)
(* environments, and the host entry points (run, run_file, run_prompt).    *)
(*                                                                         *)
(* Strings of the program (source texts, lexemes, names, paths) are        *)
(* sequences of one-character strings.  The methods run on an explicit     *)
(* call stack, one step at a time; a Python exception is a value in        *)
(* flight that takes frames off the stack until a method handles it.       *)
(***************************************************************************)
EXTENDS Integers, Sequences, FiniteSets, TLC

VARIABLES
    lx,        \* the Lexer object: source, tokens, start, current, line
    lxpc,      \* where scan_tokens is: "scan", "done", "raised", "idle"
    lxout,     \* the diagnostics the lexer printed
    interp,    \* the Interpreter object of the host, with its stdout and log
    hostpc,    \* where the host process is: "start", "prompt", "exited",
               \* "killed" (an exception left run_prompt), "ended" (run_file)
    hist,      \* the lines run_prompt has read, oldest first
    imp,       \* the import statement of the resolution run and its outcome
    unit       \* the source text of a single run and its outcome

lexVars == <<lx, lxpc, lxout>>
hostVars == <<interp, hostpc, hist>>

----------------------------------------------------------------------------
(* Characters and strings *)

DQ == "\""
SQ == "'"
NL == "\n"
NUL == "NUL"

Digits == {"0", "1", "2", "3", "4", "5", "6", "7", "8", "9"}

Letters ==
    {"a", "b", "c", "d", "e", "f", "g", "h", "i", "j", "k", "l", "m",
     "n", "o", "p", "q", "r", "s", "t", "u", "v", "w", "x", "y", "z",
     "A", "B", "C", "D", "E", "F", "G", "H", "I", "J", "K", "L", "M",
     "N", "O", "P", "Q", "R", "S", "T", "U", "V", "W", "X", "Y", "Z"}

isdigit(c) == c \in Digits
isalpha(c) == c \in Letters
isalnum(c) == isalpha(c) \/ isdigit(c)

DigitVal(c) ==
    CASE c = "0" -> 0 [] c = "1" -> 1 [] c = "2" -> 2 [] c = "3" -> 3
      [] c = "4" -> 4 [] c = "5" -> 5 [] c = "6" -> 6 [] c = "7" -> 7
      [] c = "8" -> 8 [] c = "9" -> 9

\* source[a:b] of Python, 0-based and end-exclusive, clipped like a slice
Slice(s, a, b) ==
    LET hi == IF b > Len(s) THEN Len(s) ELSE b
    IN  IF a >= hi THEN <<>> ELSE SubSeq(s, a + 1, hi)

----------------------------------------------------------------------------
(* Runtime values: a tagged sum.  Python's None is nil. *)

Nil == [t |-> "nil"]
BoolV(b) == [t |-> "bool", v |-> b]
IntV(n) == [t |-> "int", v |-> n]
StrV(s) == [t |-> "str", v |-> s]

RECURSIVE Gcd(_, _)
Gcd(a, b) == IF b = 0 THEN a ELSE Gcd(b, a % b)

Abs(n) == IF n < 0 THEN -n ELSE n

\* a float is kept as the exact fraction n/d in lowest terms, d > 0
FloatV(n, d) ==
    LET g == Gcd(Abs(n), d)
    IN  [t |-> "float", n |-> n \div g, d |-> d \div g]

RECURSIVE Pow10(_)
Pow10(k) == IF k = 0 THEN 1 ELSE 10 * Pow10(k - 1)

RECURSIVE DigitsToNat(_)
DigitsToNat(s) ==
    IF s = <<>> THEN 0
    ELSE 10 * DigitsToNat(SubSeq(s, 1, Len(s) - 1)) + DigitVal(s[Len(s)])

\* int(text) for a run of digits
ParseInt(text) == IntV(DigitsToNat(text))

\* float(text) for digits '.' digits
ParseFloat(text) ==
    LET dot == CHOOSE i \in 1..Len(text) : text[i] = "."
        whole == SubSeq(text, 1, dot - 1)
        frac == SubSeq(text, dot + 1, Len(text))
    IN  FloatV(DigitsToNat(whole) * Pow10(Len(frac)) + DigitsToNat(frac),
               Pow10(Len(frac)))

----------------------------------------------------------------------------
(* 1. Lexer *)

KEYWORDS ==
    (<<"p","r","i","n","t">> :> "PRINT")
    @@ (<<"i","f">> :> "IF")
    @@ (<<"e","l","s","e">> :> "ELSE")
    @@ (<<"w","h","i","l","e">> :> "WHILE")
    @@ (<<"f","o","r">> :> "FOR")
    @@ (<<"f","u","n","c","t","i","o","n">> :> "FUNCTION")
    @@ (<<"r","e","t","u","r","n">> :> "RETURN")
    @@ (<<"t","r","u","e">> :> "TRUE")
    @@ (<<"f","a","l","s","e">> :> "FALSE")
    @@ (<<"i","m","p","o","r","t">> :> "IMPORT")
    @@ (<<"f","r","o","m">> :> "FROM")
    @@ (<<"i","n","t">> :> "INT_TYPE")
    @@ (<<"f","l","o","a","t">> :> "FLOAT_TYPE")
    @@ (<<"c","h","a","r">> :> "CHAR_TYPE")
    @@ (<<"s","t","r","i","n","g">> :> "STRING_TYPE")
    @@ (<<"l","i","s","t">> :> "LIST")
    @@ (<<"m","a","p">> :> "MAP")
    @@ (<<"l","o","a","d","l","i","b">> :> "LOADLIB")
    @@ (<<"g","e","t","p","r","o","c">> :> "GETPROC")
    @@ (<<"f","r","e","e","l","i","b">> :> "FREELIB")
    @@ (<<"c","a","l","l","e","x","t">> :> "CALLEXT")
    @@ (<<"a","s","s","e","r","t">> :> "ASSERT")
    @@ (<<"v","a","r">> :> "VAR")
    @@ (<<"n","i","l">> :> "NIL")

\* a diagnostic text: a format with the strings that fill its {} places
Msg(text, args) == [text |-> text, args |-> args]

Token(type, lexeme, literal, line) ==
    [type |-> type, lexeme |-> lexeme, literal |-> literal, line |-> line]

\* Lexer.__init__; diags is what error() has printed, raised the Python
\* exception that escaped ("none" when none did)
Lexer(source, filename) ==
    [source |-> source, filename |-> filename, tokens |-> <<>>,
     start |-> 0, current |-> 0, line |-> 1,
     diags |-> <<>>, raised |-> "none"]

Lexer_is_at_end(L) == L.current >= Len(L.source)

\* advance(): source[current] raises IndexError at the end of the source
Lexer_advance(L) ==
    IF L.current >= Len(L.source)
    THEN [L EXCEPT !.raised = "IndexError"]
    ELSE [L EXCEPT !.current = L.current + 1]

\* the character advance() returned: the one before the cursor
Lexer_advanced(L) == L.source[L.current]

Lexer_peek(L) == IF Lexer_is_at_end(L) THEN NUL ELSE L.source[L.current + 1]

Lexer_peek_next(L) ==
    IF L.current + 1 >= Len(L.source) THEN NUL ELSE L.source[L.current + 2]

\* match(expected): whether it matched is Lexer_matches, the state Lexer_match
Lexer_matches(L, expected) ==
    ~Lexer_is_at_end(L) /\ L.source[L.current + 1] = expected

Lexer_match(L, expected) ==
    IF Lexer_matches(L, expected)
    THEN [L EXCEPT !.current = L.current + 1]
    ELSE L

Lexer_add_token(L, type, literal) ==
    LET text == Slice(L.source, L.start, L.current)
    IN  [L EXCEPT !.tokens = Append(L.tokens, Token(type, text, literal, L.line))]

Lexer_error(L, message) ==
    [L EXCEPT !.diags = Append(L.diags,
        [kind |-> "Lexer Error", file |-> L.filename, line |-> L.line,
         message |-> message])]

\* the while loop of string(): up to the closing quote or the end
RECURSIVE Lexer_string_loop(_)
Lexer_string_loop(L) ==
    IF Lexer_peek(L) # DQ /\ ~Lexer_is_at_end(L)
    THEN Lexer_string_loop(
            Lexer_advance(IF Lexer_peek(L) = NL
                          THEN [L EXCEPT !.line = L.line + 1] ELSE L))
    ELSE L

Lexer_string(L0) ==
    LET L == Lexer_string_loop(L0)
    IN  IF Lexer_is_at_end(L)
        THEN Lexer_error(L, Msg("Unterminated string.", <<>>))
        ELSE LET L2 == Lexer_advance(L)
                 value == Slice(L2.source, L2.start + 1, L2.current - 1)
             IN  Lexer_add_token(L2, "STRING", StrV(value))

RECURSIVE Lexer_digits_loop(_)
Lexer_digits_loop(L) ==
    IF isdigit(Lexer_peek(L)) THEN Lexer_digits_loop(Lexer_advance(L)) ELSE L

Lexer_number(L0) ==
    LET L1 == Lexer_digits_loop(L0)
        is_float == Lexer_peek(L1) = "." /\ isdigit(Lexer_peek_next(L1))
        L2 == IF is_float THEN Lexer_digits_loop(Lexer_advance(L1)) ELSE L1
        text == Slice(L2.source, L2.start, L2.current)
    IN  Lexer_add_token(L2, "NUMBER",
            IF is_float THEN ParseFloat(text) ELSE ParseInt(text))

RECURSIVE Lexer_identifier_loop(_)
Lexer_identifier_loop(L) ==
    IF isalnum(Lexer_peek(L)) \/ Lexer_peek(L) = "_"
    THEN Lexer_identifier_loop(Lexer_advance(L))
    ELSE L

Lexer_identifier(L0) ==
    LET L == Lexer_identifier_loop(L0)
        text == Slice(L.source, L.start, L.current)
        token_type == IF text \in DOMAIN KEYWORDS THEN KEYWORDS[text]
                      ELSE "IDENTIFIER"
        literal == IF token_type = "TRUE" THEN BoolV(TRUE)
                   ELSE IF token_type = "FALSE" THEN BoolV(FALSE)
                   ELSE Nil
    IN  Lexer_add_token(L, token_type, literal)

\* the branch of scan_token for a character literal: two more advance()s,
\* each of which raises IndexError at the end of the source
Lexer_char(L) ==
    LET L1 == Lexer_advance(L)
    IN  IF L1.raised # "none" THEN L1
        ELSE LET char_val == Lexer_advanced(L1)
                 L2 == Lexer_advance(L1)
             IN  IF L2.raised # "none" THEN L2
                 ELSE IF Lexer_advanced(L2) # SQ
                 THEN Lexer_error(L2, Msg("Unterminated character literal.", <<>>))
                 ELSE Lexer_add_token(L2, "CHAR", StrV(<<char_val>>))

\* a '//' comment runs to the end of the line
RECURSIVE Lexer_comment_loop(_)
Lexer_comment_loop(L) ==
    IF Lexer_peek(L) # NL /\ ~Lexer_is_at_end(L)
    THEN Lexer_comment_loop(Lexer_advance(L))
    ELSE L

Lexer_two(L, second, double, single) ==
    IF Lexer_matches(L, second)
    THEN Lexer_add_token(Lexer_match(L, second), double, Nil)
    ELSE Lexer_add_token(L, single, Nil)

SingleCharTokens ==
    ("(" :> "LPAREN") @@ (")" :> "RPAREN") @@ ("{" :> "LBRACE")
    @@ ("}" :> "RBRACE") @@ ("[" :> "LBRACKET") @@ ("]" :> "RBRACKET")
    @@ ("," :> "COMMA") @@ ("." :> "DOT") @@ ("-" :> "MINUS")
    @@ ("+" :> "PLUS") @@ (";" :> "SEMICOLON") @@ ("*" :> "MULTIPLY")

scan_token(L0) ==
    LET L == Lexer_advance(L0)
        c == Lexer_advanced(L)
    IN  IF c \in {" ", "\r", "\t"} THEN L
        ELSE IF c = NL THEN [L EXCEPT !.line = L.line + 1]
        ELSE IF c \in DOMAIN SingleCharTokens
        THEN Lexer_add_token(L, SingleCharTokens[c], Nil)
        ELSE IF c = "!" THEN Lexer_two(L, "=", "NOT_EQUAL", "NOT")
        ELSE IF c = "=" THEN Lexer_two(L, "=", "EQUAL", "ASSIGN")
        ELSE IF c = "<" THEN Lexer_two(L, "=", "LESS_EQUAL", "LESS")
        ELSE IF c = ">" THEN Lexer_two(L, "=", "GREATER_EQUAL", "GREATER")
        ELSE IF c = "|"
        THEN IF Lexer_matches(L, "|")
             THEN Lexer_add_token(Lexer_match(L, "|"), "OR", Nil)
             ELSE Lexer_error(L, Msg("Unexpected character: {}", <<<<"|">>>>))
        ELSE IF c = "/"
        THEN IF Lexer_matches(L, "/")
             THEN Lexer_comment_loop(Lexer_match(L, "/"))
             ELSE Lexer_add_token(L, "DIVIDE", Nil)
        ELSE IF c = "&"
        THEN IF Lexer_matches(L, "&")
             THEN Lexer_add_token(Lexer_match(L, "&"), "AND", Nil)
             ELSE Lexer_error(L, Msg("Unexpected character: {}", <<<<"&">>>>))
        ELSE IF c = DQ THEN Lexer_string(L)
        ELSE IF c = SQ THEN Lexer_char(L)
        ELSE IF isdigit(c) THEN Lexer_number(L)
        ELSE IF isalpha(c) \/ c = "_" THEN Lexer_identifier(L)
        ELSE Lexer_error(L, Msg("Unexpected character: {}", <<<<c>>>>))

\* one turn of the loop of scan_tokens
scan_tokens_step(L) == scan_token([L EXCEPT !.start = L.current])

\* the exit of the loop of scan_tokens: the EOF token
scan_tokens_finish(L) ==
    [L EXCEPT !.tokens = Append(L.tokens, Token("EOF", <<>>, Nil, L.line))]

\* at most n turns of the loop of scan_tokens (the loop ends at the end of
\* the source, or with an exception), halving n so that a long source does
\* not nest deeply
RECURSIVE scan_tokens_turns(_, _)
scan_tokens_turns(L, n) ==
    IF L.raised # "none" \/ Lexer_is_at_end(L) \/ n = 0 THEN L
    ELSE IF n = 1 THEN scan_tokens_step(L)
    ELSE scan_tokens_turns(scan_tokens_turns(L, n \div 2), n - n \div 2)

\* scan_tokens(), whole: the lexer it leaves; its tokens are the result
\* unless raised says an exception escaped.  Every turn of the loop
\* consumes a character or raises, so Len(source) turns reach the end.
scan_tokens(L) ==
    LET L1 == scan_tokens_turns(L, Len(L.source))
    IN  IF L1.raised # "none" THEN L1 ELSE scan_tokens_finish(L1)

----------------------------------------------------------------------------
(* 2. Abstract syntax tree nodes.  None is the node NoNode. *)

NoNode == [kind |-> "None"]

Expr_Assign(name, value) == [kind |-> "Assign", name |-> name, value |-> value]
Expr_Binary(left, operator, right) ==
    [kind |-> "Binary", left |-> left, operator |-> operator, right |-> right]
Expr_Call(callee, paren, arguments) ==
    [kind |-> "Call", callee |-> callee, paren |-> paren, arguments |-> arguments]
Expr_Grouping(expression) == [kind |-> "Grouping", expression |-> expression]
Expr_Literal(value) == [kind |-> "Literal", value |-> value]
Expr_ListLiteral(elements) == [kind |-> "ListLiteral", elements |-> elements]
Expr_Get(object, index) == [kind |-> "Get", object |-> object, index |-> index]
Expr_Set(object, index, value) ==
    [kind |-> "Set", object |-> object, index |-> index, value |-> value]
Expr_Logical(left, operator, right) ==
    [kind |-> "Logical", left |-> left, operator |-> operator, right |-> right]
Expr_Unary(operator, right) ==
    [kind |-> "Unary", operator |-> operator, right |-> right]
Expr_Variable(name) == [kind |-> "Variable", name |-> name]

Stmt_Block(statements) == [kind |-> "Block", statements |-> statements]
Stmt_ExpressionStmt(expression) ==
    [kind |-> "ExpressionStmt", expression |-> expression]
Stmt_Print(expressions) == [kind |-> "Print", expressions |-> expressions]
Stmt_Function(name, params, body) ==
    [kind |-> "Function", name |-> name, params |-> params, body |-> body]
Stmt_If(condition, then_branch, else_branch) ==
    [kind |-> "If", condition |-> condition, then_branch |-> then_branch,
     else_branch |-> else_branch]
Stmt_Return(keyword, value) ==
    [kind |-> "Return", keyword |-> keyword, value |-> value]
Stmt_While(condition, body) ==
    [kind |-> "While", condition |-> condition, body |-> body]
Stmt_Import(path_token, namespace) ==
    [kind |-> "Import", path_token |-> path_token, namespace |-> namespace]
Stmt_Assert(keyword, condition, message) ==
    [kind |-> "Assert", keyword |-> keyword, condition |-> condition,
     message |-> message]
Stmt_Var(name, initializer) ==
    [kind |-> "Var", name |-> name, initializer |-> initializer]

----------------------------------------------------------------------------
(* 3. Parser.  A parser state p holds the tokens, the cursor, the          *)
(* diagnostics printed and, as history, the number of statements dropped   *)
(* and where each synchronize started and stopped.                         *)
(* consume and the loop over the parameters return [p, ok, node]: the      *)
(* parser they leave, whether they returned (ok) or raised ParseError,     *)
(* and what they returned.                                                 *)

Parser(tokens, filename) ==
    [tokens |-> tokens, filename |-> filename, current |-> 0, diags |-> <<>>,
     dropped |-> 0, syncs |-> <<>>, decls |-> <<>>]

Returned(p, node) == [p |-> p, ok |-> TRUE, node |-> node]
Raised(p) == [p |-> p, ok |-> FALSE, node |-> NoNode]

Parser_peek(p) == p.tokens[p.current + 1]

Parser_is_at_end(p) == Parser_peek(p).type = "EOF"

Parser_peek_next(p) ==
    IF p.current + 1 >= Len(p.tokens) THEN p.tokens[Len(p.tokens)]
    ELSE p.tokens[p.current + 2]

\* tokens[current - 1]; at current = 0 Python's index -1 is the last token
Parser_previous(p) ==
    IF p.current = 0 THEN p.tokens[Len(p.tokens)] ELSE p.tokens[p.current]

\* advance(): the parser it leaves; the token it returns is Parser_previous
Parser_advance(p) ==
    IF ~Parser_is_at_end(p) THEN [p EXCEPT !.current = p.current + 1] ELSE p

Parser_check(p, type) ==
    IF Parser_is_at_end(p) THEN FALSE ELSE Parser_peek(p).type = type

\* match(*types): whether one matched is Parser_matches, the state Parser_match
Parser_matches(p, types) == \E t \in types : Parser_check(p, t)

Parser_match(p, types) ==
    IF Parser_matches(p, types) THEN Parser_advance(p) ELSE p

\* error(token, message): prints the diagnostic (and returns a ParseError
\* that the caller may raise)
Parser_error(p, token, message) ==
    [p EXCEPT !.diags = Append(p.diags,
        [kind |-> "Parse Error",
         at |-> IF token.type = "EOF" THEN <<"e","n","d">> ELSE token.lexeme,
         message |-> Msg(message, <<>>)])]

Parser_consume(p, type, message) ==
    IF Parser_check(p, type)
    THEN Returned(Parser_advance(p), Parser_previous(Parser_advance(p)))
    ELSE Raised(Parser_error(p, Parser_peek(p), message))

SyncTypes == {"FUNCTION", "WHILE", "FOR", "IF", "RETURN", "PRINT"}

RECURSIVE synchronize_loop(_)
synchronize_loop(p) ==
    IF Parser_is_at_end(p) THEN p
    ELSE IF Parser_previous(p).type = "SEMICOLON" THEN p
    ELSE IF Parser_peek(p).type \in SyncTypes THEN p
    ELSE synchronize_loop(Parser_advance(p))

\* synchronize as it would be without the advance() it starts with
synchronize_no_advance(p) == synchronize_loop(p)

synchronize(p) == synchronize_loop(Parser_advance(p))

MaxArgs == 255

----------------------------------------------------------------------------
(* 3a. The call stack.  The methods of the parser and of the interpreter   *)
(* call one another recursively; the model runs them on an explicit call   *)
(* stack.  A machine M holds the interpreter state I, the parser p of the  *)
(* run in progress, the stack of frames, the value the last call returned  *)
(* (ret) and the exception in flight (exc).  A frame is a method m, its    *)
(* local variables v and the point pc where it continues: pc 0 is the      *)
(* start of the method, every other pc is the return from a call.          *)

NoExc == [k |-> "none", v |-> Nil]

\* the local variables of the methods as they are before their first
\* assignment
Locals ==
    [parse |-> [statements |-> <<>>],
     block |-> [statements |-> <<>>],
     declaration |-> [from |-> 0],
     var_declaration |-> [name |-> NoNode],
     function_declaration |-> [name |-> NoNode, params |-> <<>>],
     print_statement |-> [values |-> <<>>],
     assert_statement |-> [keyword |-> NoNode, condition |-> NoNode],
     return_statement |-> [keyword |-> NoNode],
     while_statement |-> [condition |-> NoNode],
     for_statement |-> [initializer |-> NoNode, condition |-> NoNode,
                        increment |-> NoNode],
     if_statement |-> [condition |-> NoNode, then_branch |-> NoNode],
     assignment |-> [expr |-> NoNode, equals |-> NoNode],
     logical_or |-> [expr |-> NoNode, operator |-> NoNode],
     logical_and |-> [expr |-> NoNode, operator |-> NoNode],
     equality |-> [expr |-> NoNode, operator |-> NoNode],
     comparison |-> [expr |-> NoNode, operator |-> NoNode],
     term |-> [expr |-> NoNode, operator |-> NoNode],
     factor |-> [expr |-> NoNode, operator |-> NoNode],
     unary |-> [operator |-> NoNode],
     call |-> [expr |-> NoNode],
     finish_call |-> [arguments |-> <<>>],
     primary |-> [elements |-> <<>>],
     evaluate_all |-> [values |-> <<>>],
     visit_get_expr |-> [obj |-> Nil],
     visit_set_expr |-> [obj |-> Nil, index |-> Nil],
     visit_binary_expr |-> [left |-> Nil],
     visit_call_expr |-> [callee |-> Nil],
     MiniScriptFunction_call |-> [id |-> 0, outer |-> 0, caller |-> 0],
     execute_block |-> [previous |-> 0,
                        entry |-> [log |-> 0, envs |-> <<>>, body |-> <<>>]],
     visit_import_stmt |-> [found_path |-> <<>>, before |-> <<>>],
     run |-> [original_filename |-> <<>>, statements |-> <<>>]]

Frame(m, args) ==
    [m |-> m, pc |-> 0,
     v |-> IF m \notin DOMAIN Locals THEN args
           ELSE IF DOMAIN args = {} THEN Locals[m]
           ELSE args @@ Locals[m]]

NoArgs == <<>>

Top(M) == M.stack[Len(M.stack)]

\* the frames under the top one
Callers(M) == SubSeq(M.stack, 1, Len(M.stack) - 1)

\* the assignment of a local variable of the method running
Set(M, name, value) == [M EXCEPT !.stack[Len(M.stack)].v[name] = value]

\* the method running calls the method m and continues at pc when m returns
Invoke(M, pc, m, args) ==
    [M EXCEPT !.stack = Append([M.stack EXCEPT ![Len(M.stack)].pc = pc],
                               Frame(m, args))]

\* return self.m(...): the method running ends with what m returns
Become(M, m, args) == [M EXCEPT !.stack[Len(M.stack)] = Frame(m, args)]

\* return value
Return(M, value) == [M EXCEPT !.stack = Callers(M), !.ret = value]

\* an exception in flight leaves the method running
Propagate(M) == [M EXCEPT !.stack = Callers(M)]

\* raise: the exception leaves the method running
Raise(M, k, v) == [M EXCEPT !.stack = Callers(M), !.exc = [k |-> k, v |-> v]]

\* the parser after a step of the method running
With(M, p) == [M EXCEPT !.p = p]

\* raise self.error(...) of a consume that failed
Fail(M, consumed) == Raise(With(M, consumed.p), "ParseError", Nil)

----------------------------------------------------------------------------
(* 3b. The methods of the parser, each a step of the machine whose top     *)
(* frame is the method                                                     *)

expression(M) == Become(M, "assignment", NoArgs)

assignment(M) ==
    LET v == Top(M).v
    IN  CASE Top(M).pc = 0 -> Invoke(M, 1, "logical_or", NoArgs)
          [] Top(M).pc = 1 ->
               IF Parser_matches(M.p, {"ASSIGN"})
               THEN LET p1 == Parser_match(M.p, {"ASSIGN"})
                    IN  Invoke(Set(Set(With(M, p1), "expr", M.ret),
                                   "equals", Parser_previous(p1)),
                               2, "assignment", NoArgs)
               ELSE Return(M, M.ret)
          [] Top(M).pc = 2 ->
               IF v.expr.kind = "Variable"
               THEN Return(M, Expr_Assign(v.expr.name, M.ret))
               ELSE IF v.expr.kind = "Get"
               THEN Return(M, Expr_Set(v.expr.object, v.expr.index, M.ret))
               \* self.error(...) is called, not raised: falls to 'return expr'
               ELSE Return(With(M, Parser_error(M.p, v.equals,
                                                "Invalid assignment target.")),
                           v.expr)

\* expr = self.operand(); while self.match(*types): operator = previous();
\* right = self.operand(); expr = Logical(expr, operator, right) or
\* Binary(expr, operator, right), as kind says
BinaryLevel(M, operand, types, kind) ==
    LET loop(N) ==
            IF Parser_matches(N.p, types)
            THEN LET p1 == Parser_match(N.p, types)
                 IN  Invoke(Set(With(N, p1), "operator", Parser_previous(p1)),
                            2, operand, NoArgs)
            ELSE Return(N, Top(N).v.expr)
    IN  CASE Top(M).pc = 0 -> Invoke(M, 1, operand, NoArgs)
          [] Top(M).pc = 1 -> loop(Set(M, "expr", M.ret))
          [] Top(M).pc = 2 ->
               loop(Set(M, "expr",
                        IF kind = "Logical"
                        THEN Expr_Logical(Top(M).v.expr, Top(M).v.operator,
                                          M.ret)
                        ELSE Expr_Binary(Top(M).v.expr, Top(M).v.operator,
                                         M.ret)))

logical_or(M) == BinaryLevel(M, "logical_and", {"OR"}, "Logical")

logical_and(M) == BinaryLevel(M, "equality", {"AND"}, "Logical")

equality(M) ==
    BinaryLevel(M, "comparison", {"NOT_EQUAL", "EQUAL"}, "Binary")

comparison(M) ==
    BinaryLevel(M, "term", {"GREATER", "GREATER_EQUAL", "LESS", "LESS_EQUAL"},
                "Binary")

term(M) == BinaryLevel(M, "factor", {"PLUS", "MINUS"}, "Binary")

factor(M) == BinaryLevel(M, "unary", {"MULTIPLY", "DIVIDE"}, "Binary")

unary(M) ==
    CASE Top(M).pc = 0 ->
           IF Parser_matches(M.p, {"NOT", "MINUS"})
           THEN LET p1 == Parser_match(M.p, {"NOT", "MINUS"})
                IN  Invoke(Set(With(M, p1), "operator", Parser_previous(p1)),
                           1, "unary", NoArgs)
           ELSE Become(M, "call", NoArgs)
      [] Top(M).pc = 1 -> Return(M, Expr_Unary(Top(M).v.operator, M.ret))

call(M) ==
    LET loop(N) ==
            IF Parser_matches(N.p, {"LPAREN"})
            THEN Invoke(With(N, Parser_match(N.p, {"LPAREN"})), 1,
                        "finish_call", [callee |-> Top(N).v.expr])
            ELSE IF Parser_matches(N.p, {"LBRACKET"})
            THEN Invoke(With(N, Parser_match(N.p, {"LBRACKET"})), 2,
                        "expression", NoArgs)
            ELSE Return(N, Top(N).v.expr)
    IN  CASE Top(M).pc = 0 -> Invoke(M, 1, "primary", NoArgs)
          [] Top(M).pc = 1 -> loop(Set(M, "expr", M.ret))
          [] Top(M).pc = 2 ->
               LET rb == Parser_consume(M.p, "RBRACKET",
                                        "Expect ']' after index.")
               IN  IF ~rb.ok THEN Fail(M, rb)
                   ELSE loop(Set(With(M, rb.p), "expr",
                                 Expr_Get(Top(M).v.expr, M.ret)))

finish_call(M) ==
    LET v == Top(M).v
        \* one turn of the loop over the arguments, up to self.expression()
        argument(N) ==
            Invoke(IF Len(Top(N).v.arguments) >= MaxArgs
                   THEN With(N, Parser_error(N.p, Parser_peek(N.p),
                                "Can't have more than 255 arguments."))
                   ELSE N,
                   1, "expression", NoArgs)
        finish(N) ==
            LET paren == Parser_consume(N.p, "RPAREN",
                                        "Expect ')' after arguments.")
            IN  IF ~paren.ok THEN Fail(N, paren)
                ELSE Return(With(N, paren.p),
                            Expr_Call(Top(N).v.callee, paren.node,
                                      Top(N).v.arguments))
    IN  CASE Top(M).pc = 0 ->
               IF ~Parser_check(M.p, "RPAREN") THEN argument(M) ELSE finish(M)
          [] Top(M).pc = 1 ->
               LET N == Set(M, "arguments", Append(v.arguments, M.ret))
               IN  IF Parser_matches(N.p, {"COMMA"})
                   THEN argument(With(N, Parser_match(N.p, {"COMMA"})))
                   ELSE finish(N)

primary(M) ==
    LET p == M.p
        finish(N) ==
            LET rb == Parser_consume(N.p, "RBRACKET",
                                     "Expect ']' after list elements.")
            IN  IF ~rb.ok THEN Fail(N, rb)
                ELSE Return(With(N, rb.p),
                            Expr_ListLiteral(Top(N).v.elements))
    IN  CASE Top(M).pc = 0 ->
               IF Parser_matches(p, {"NUMBER", "FALSE", "TRUE", "NIL"})
               THEN LET p1 == Parser_match(p, {"NUMBER", "FALSE", "TRUE", "NIL"})
                    IN  Return(With(M, p1),
                               Expr_Literal(Parser_previous(p1).literal))
               ELSE IF Parser_matches(p, {"STRING"})
               THEN LET p1 == Parser_match(p, {"STRING"})
                    IN  Return(With(M, p1),
                               Expr_Literal(Parser_previous(p1).literal))
               ELSE IF Parser_matches(p, {"LPAREN"})
               THEN Invoke(With(M, Parser_match(p, {"LPAREN"})), 1,
                           "expression", NoArgs)
               ELSE IF Parser_matches(p, {"IDENTIFIER"})
               THEN LET p1 == Parser_match(p, {"IDENTIFIER"})
                    IN  Return(With(M, p1), Expr_Variable(Parser_previous(p1)))
               ELSE IF Parser_matches(p, {"LBRACKET"})
               THEN LET N == With(M, Parser_match(p, {"LBRACKET"}))
                    IN  IF ~Parser_check(N.p, "RBRACKET")
                        THEN Invoke(N, 2, "expression", NoArgs)
                        ELSE finish(N)
               ELSE Raise(With(M, Parser_error(p, Parser_peek(p),
                                               "Expect expression.")),
                          "ParseError", Nil)
          [] Top(M).pc = 1 ->
               LET rp == Parser_consume(p, "RPAREN",
                                        "Expect ')' after expression.")
               IN  IF ~rp.ok THEN Fail(M, rp)
                   ELSE Return(With(M, rp.p), Expr_Grouping(M.ret))
          [] Top(M).pc = 2 ->
               LET N == Set(M, "elements", Append(Top(M).v.elements, M.ret))
               IN  IF Parser_matches(p, {"COMMA"})
                   THEN Invoke(With(N, Parser_match(p, {"COMMA"})), 2,
                               "expression", NoArgs)
                   ELSE finish(N)

var_declaration(M) ==
    LET finish(N, initializer) ==
            LET semi == Parser_consume(N.p, "SEMICOLON",
                            "Expect ';' after variable declaration.")
            IN  IF ~semi.ok THEN Fail(N, semi)
                ELSE Return(With(N, semi.p),
                            Stmt_Var(Top(N).v.name, initializer))
    IN  CASE Top(M).pc = 0 ->
               LET name == Parser_consume(M.p, "IDENTIFIER",
                                          "Expect variable name.")
                   N == Set(With(M, name.p), "name", name.node)
               IN  IF ~name.ok THEN Fail(M, name)
                   ELSE IF Parser_matches(name.p, {"ASSIGN"})
                   THEN Invoke(With(N, Parser_match(name.p, {"ASSIGN"})), 1,
                               "expression", NoArgs)
                   ELSE finish(N, NoNode)
          [] Top(M).pc = 1 -> finish(M, M.ret)

\* the loop over the parameters: [p, ok, node] with the list of the names
RECURSIVE params_loop(_, _)
params_loop(p, params) ==
    LET p1 == IF Len(params) >= MaxArgs
              THEN Parser_error(p, Parser_peek(p),
                                "Can't have more than 255 parameters.")
              ELSE p
        param == Parser_consume(p1, "IDENTIFIER", "Expect parameter name.")
    IN  IF ~param.ok THEN param
        ELSE IF Parser_matches(param.p, {"COMMA"})
        THEN params_loop(Parser_match(param.p, {"COMMA"}),
                         Append(params, param.node))
        ELSE Returned(param.p, Append(params, param.node))

function_declaration(M) ==
    CASE Top(M).pc = 0 ->
           LET name == Parser_consume(M.p, "IDENTIFIER",
                                      "Expect function name.")
           IN  IF ~name.ok THEN Fail(M, name) ELSE
               LET lp == Parser_consume(name.p, "LPAREN",
                                        "Expect '(' after function name.")
               IN  IF ~lp.ok THEN Fail(M, lp) ELSE
               LET params == IF ~Parser_check(lp.p, "RPAREN")
                             THEN params_loop(lp.p, <<>>)
                             ELSE Returned(lp.p, <<>>)
               IN  IF ~params.ok THEN Fail(M, params) ELSE
               LET rp == Parser_consume(params.p, "RPAREN",
                                        "Expect ')' after parameters.")
               IN  IF ~rp.ok THEN Fail(M, rp) ELSE
               LET lb == Parser_consume(rp.p, "LBRACE",
                                        "Expect '{' before function body.")
               IN  IF ~lb.ok THEN Fail(M, lb)
                   ELSE Invoke(Set(Set(With(M, lb.p), "name", name.node),
                                   "params", params.node),
                               1, "block", NoArgs)
      [] Top(M).pc = 1 ->
           Return(M, Stmt_Function(Top(M).v.name, Top(M).v.params, M.ret))

print_statement(M) ==
    CASE Top(M).pc = 0 -> Invoke(M, 1, "expression", NoArgs)
      [] Top(M).pc = 1 ->
           LET N == Set(M, "values", Append(Top(M).v.values, M.ret))
           IN  IF Parser_matches(N.p, {"COMMA"})
               THEN Invoke(With(N, Parser_match(N.p, {"COMMA"})), 1,
                           "expression", NoArgs)
               ELSE LET semi == Parser_consume(N.p, "SEMICOLON",
                                               "Expect ';' after value.")
                    IN  IF ~semi.ok THEN Fail(N, semi)
                        ELSE Return(With(N, semi.p),
                                    Stmt_Print(Top(N).v.values))

assert_statement(M) ==
    CASE Top(M).pc = 0 ->
           Invoke(Set(M, "keyword", Parser_previous(M.p)), 1,
                  "expression", NoArgs)
      [] Top(M).pc = 1 ->
           LET comma == Parser_consume(M.p, "COMMA",
                                       "Expect ',' after assert condition.")
           IN  IF ~comma.ok THEN Fail(M, comma)
               ELSE Invoke(Set(With(M, comma.p), "condition", M.ret), 2,
                           "expression", NoArgs)
      [] Top(M).pc = 2 ->
           LET semi == Parser_consume(M.p, "SEMICOLON",
                                      "Expect ';' after assert message.")
           IN  IF ~semi.ok THEN Fail(M, semi)
               ELSE Return(With(M, semi.p),
                           Stmt_Assert(Top(M).v.keyword, Top(M).v.condition,
                                       M.ret))

import_statement(M) ==
    LET p == M.p
        hasNamespace == Parser_check(p, "IDENTIFIER")
                        /\ Parser_peek_next(p).type = "FROM"
        namespace == IF hasNamespace
                     THEN Parser_consume(p, "IDENTIFIER",
                                         "Expect namespace for import.")
                     ELSE Returned(p, NoNode)
        from == IF hasNamespace
                THEN Parser_consume(namespace.p, "FROM",
                                    "Expect 'from' after namespace.")
                ELSE Returned(p, NoNode)
    IN  IF ~namespace.ok THEN Fail(M, namespace)
        ELSE IF ~from.ok THEN Fail(M, from) ELSE
        LET path_token == Parser_consume(from.p, "STRING",
                                         "Expect string path for import.")
        IN  IF ~path_token.ok THEN Fail(M, path_token) ELSE
        LET semi == Parser_consume(path_token.p, "SEMICOLON",
                                   "Expect ';' after import statement.")
        IN  IF ~semi.ok THEN Fail(M, semi)
            ELSE Return(With(M, semi.p),
                        Stmt_Import(path_token.node, namespace.node))

expression_statement(M) ==
    CASE Top(M).pc = 0 -> Invoke(M, 1, "expression", NoArgs)
      [] Top(M).pc = 1 ->
           LET semi == Parser_consume(M.p, "SEMICOLON",
                                      "Expect ';' after expression.")
           IN  IF ~semi.ok THEN Fail(M, semi)
               ELSE Return(With(M, semi.p), Stmt_ExpressionStmt(M.ret))

return_statement(M) ==
    LET finish(N, value) ==
            LET semi == Parser_consume(N.p, "SEMICOLON",
                                       "Expect ';' after return value.")
            IN  IF ~semi.ok THEN Fail(N, semi)
                ELSE Return(With(N, semi.p),
                            Stmt_Return(Top(N).v.keyword, value))
    IN  CASE Top(M).pc = 0 ->
               LET N == Set(M, "keyword", Parser_previous(M.p))
               IN  IF ~Parser_check(M.p, "SEMICOLON")
                   THEN Invoke(N, 1, "expression", NoArgs)
                   ELSE finish(N, NoNode)
          [] Top(M).pc = 1 -> finish(M, M.ret)

while_statement(M) ==
    CASE Top(M).pc = 0 ->
           LET lp == Parser_consume(M.p, "LPAREN", "Expect '(' after 'while'.")
           IN  IF ~lp.ok THEN Fail(M, lp)
               ELSE Invoke(With(M, lp.p), 1, "expression", NoArgs)
      [] Top(M).pc = 1 ->
           LET rp == Parser_consume(M.p, "RPAREN",
                                    "Expect ')' after condition.")
           IN  IF ~rp.ok THEN Fail(M, rp)
               ELSE Invoke(Set(With(M, rp.p), "condition", M.ret), 2,
                           "statement", NoArgs)
      [] Top(M).pc = 2 -> Return(M, Stmt_While(Top(M).v.condition, M.ret))

\* the loop with the increment run before the body instead of after it
for_desugar_increment_first(initializer, condition, increment, body) ==
    LET body1 == IF increment # NoNode
                 THEN Stmt_Block(<<Stmt_ExpressionStmt(increment), body>>)
                 ELSE body
        cond1 == IF condition = NoNode THEN Expr_Literal(BoolV(TRUE))
                 ELSE condition
        loop == Stmt_While(cond1, body1)
    IN  IF initializer # NoNode THEN Stmt_Block(<<initializer, loop>>)
        ELSE loop

\* the end of for_statement: the tree built from the clauses and the body
for_desugar(initializer, condition, increment, body) ==
    LET body1 == IF increment # NoNode
                 THEN Stmt_Block(<<body, Stmt_ExpressionStmt(increment)>>)
                 ELSE body
        cond1 == IF condition = NoNode THEN Expr_Literal(BoolV(TRUE))
                 ELSE condition
        loop == Stmt_While(cond1, body1)
    IN  IF initializer # NoNode THEN Stmt_Block(<<initializer, loop>>)
        ELSE loop

for_statement(M) ==
    LET v == Top(M).v
        \* self.consume(RPAREN, ...); body = self.statement()
        clauses(N, increment) ==
            LET rp == Parser_consume(N.p, "RPAREN",
                                     "Expect ')' after for clauses.")
            IN  IF ~rp.ok THEN Fail(N, rp)
                ELSE Invoke(Set(With(N, rp.p), "increment", increment), 4,
                            "statement", NoArgs)
        \* from the ';' after the condition on
        increment(N, condition) ==
            LET semi == Parser_consume(N.p, "SEMICOLON",
                                       "Expect ';' after for loop condition.")
                N1 == Set(With(N, semi.p), "condition", condition)
            IN  IF ~semi.ok THEN Fail(N, semi)
                ELSE IF ~Parser_check(semi.p, "RPAREN")
                THEN Invoke(N1, 3, "expression", NoArgs)
                ELSE clauses(N1, NoNode)
        \* from the condition on
        condition(N, initializer) ==
            LET N1 == Set(N, "initializer", initializer)
            IN  IF ~Parser_check(N.p, "SEMICOLON")
                THEN Invoke(N1, 2, "expression", NoArgs)
                ELSE increment(N1, NoNode)
    IN  CASE Top(M).pc = 0 ->
               LET lp == Parser_consume(M.p, "LPAREN",
                                        "Expect '(' after 'for'.")
               IN  IF ~lp.ok THEN Fail(M, lp)
                   ELSE IF Parser_matches(lp.p, {"SEMICOLON"})
                   THEN condition(With(M, Parser_match(lp.p, {"SEMICOLON"})),
                                  NoNode)
                   ELSE IF Parser_matches(lp.p, {"VAR"})
                   THEN Invoke(With(M, Parser_match(lp.p, {"VAR"})), 1,
                               "var_declaration", NoArgs)
                   ELSE Invoke(With(M, lp.p), 1, "expression_statement",
                               NoArgs)
          [] Top(M).pc = 1 -> condition(M, M.ret)
          [] Top(M).pc = 2 -> increment(M, M.ret)
          [] Top(M).pc = 3 -> clauses(M, M.ret)
          [] Top(M).pc = 4 ->
               Return(M, for_desugar(v.initializer, v.condition, v.increment,
                                     M.ret))

if_statement(M) ==
    CASE Top(M).pc = 0 ->
           LET lp == Parser_consume(M.p, "LPAREN", "Expect '(' after 'if'.")
           IN  IF ~lp.ok THEN Fail(M, lp)
               ELSE Invoke(With(M, lp.p), 1, "expression", NoArgs)
      [] Top(M).pc = 1 ->
           LET rp == Parser_consume(M.p, "RPAREN",
                                    "Expect ')' after if condition.")
           IN  IF ~rp.ok THEN Fail(M, rp)
               ELSE Invoke(Set(With(M, rp.p), "condition", M.ret), 2,
                           "statement", NoArgs)
      [] Top(M).pc = 2 ->
           IF Parser_matches(M.p, {"ELSE"})
           THEN Invoke(Set(With(M, Parser_match(M.p, {"ELSE"})),
                           "then_branch", M.ret),
                       3, "statement", NoArgs)
           ELSE Return(M, Stmt_If(Top(M).v.condition, M.ret, NoNode))
      [] Top(M).pc = 3 ->
           Return(M, Stmt_If(Top(M).v.condition, Top(M).v.then_branch, M.ret))

block(M) ==
    LET loop(N) ==
            IF ~Parser_check(N.p, "RBRACE") /\ ~Parser_is_at_end(N.p)
            THEN Invoke(N, 1, "declaration", NoArgs)
            ELSE LET rb == Parser_consume(N.p, "RBRACE",
                                          "Expect '}' after block.")
                 IN  IF ~rb.ok THEN Fail(N, rb)
                     ELSE Return(With(N, rb.p), Top(N).v.statements)
    IN  CASE Top(M).pc = 0 -> loop(M)
          [] Top(M).pc = 1 ->
               loop(IF M.ret # NoNode
                    THEN Set(M, "statements",
                             Append(Top(M).v.statements, M.ret))
                    ELSE M)

statement(M) ==
    LET p == M.p
    IN  CASE Top(M).pc = 0 ->
               IF Parser_matches(p, {"PRINT"})
               THEN Become(With(M, Parser_match(p, {"PRINT"})),
                           "print_statement", NoArgs)
               ELSE IF Parser_matches(p, {"ASSERT"})
               THEN Become(With(M, Parser_match(p, {"ASSERT"})),
                           "assert_statement", NoArgs)
               ELSE IF Parser_matches(p, {"IMPORT"})
               THEN Become(With(M, Parser_match(p, {"IMPORT"})),
                           "import_statement", NoArgs)
               ELSE IF Parser_matches(p, {"LBRACE"})
               THEN Invoke(With(M, Parser_match(p, {"LBRACE"})), 1,
                           "block", NoArgs)
               ELSE IF Parser_matches(p, {"RETURN"})
               THEN Become(With(M, Parser_match(p, {"RETURN"})),
                           "return_statement", NoArgs)
               ELSE IF Parser_matches(p, {"WHILE"})
               THEN Become(With(M, Parser_match(p, {"WHILE"})),
                           "while_statement", NoArgs)
               ELSE IF Parser_matches(p, {"FOR"})
               THEN Become(With(M, Parser_match(p, {"FOR"})),
                           "for_statement", NoArgs)
               ELSE IF Parser_matches(p, {"IF"})
               THEN Become(With(M, Parser_match(p, {"IF"})),
                           "if_statement", NoArgs)
               ELSE Become(M, "expression_statement", NoArgs)
          [] Top(M).pc = 1 -> Return(M, Stmt_Block(M.ret))

\* declaration(): a ParseError of the statement is caught, the parser
\* synchronizes and None is returned; dropped counts these, syncs keeps
\* the cursor before and after each synchronize and decls the cursor at
\* the start and at the end of each call of declaration, as history
declaration(M) ==
    LET called(p) ==
            [p EXCEPT !.decls = Append(@, [from |-> Top(M).v.from,
                                           to |-> p.current])]
        N == Set(M, "from", M.p.current)
    IN  IF M.exc.k = "ParseError"
        THEN Return([M EXCEPT !.exc = NoExc,
                              !.p = called([synchronize(M.p) EXCEPT
                                       !.dropped = @ + 1,
                                       !.syncs = Append(@,
                                           [from |-> M.p.current,
                                            to |-> synchronize(M.p).current])])],
                    NoNode)
        ELSE IF M.exc.k # "none" THEN Propagate(M)
        ELSE CASE Top(M).pc = 0 ->
                    IF Parser_matches(M.p, {"FUNCTION"})
                    THEN Invoke(With(N, Parser_match(M.p, {"FUNCTION"})), 1,
                                "function_declaration", NoArgs)
                    ELSE IF Parser_matches(M.p, {"VAR"})
                    THEN Invoke(With(N, Parser_match(M.p, {"VAR"})), 1,
                                "var_declaration", NoArgs)
                    ELSE Invoke(N, 1, "statement", NoArgs)
               [] Top(M).pc = 1 -> Return(With(M, called(M.p)), M.ret)

parse(M) ==
    LET loop(N) ==
            IF ~Parser_is_at_end(N.p)
            THEN Invoke(N, 1, "declaration", NoArgs)
            ELSE Return(N, Top(N).v.statements)
    IN  CASE Top(M).pc = 0 -> loop(M)
          [] Top(M).pc = 1 ->
               loop(IF M.ret # NoNode
                    THEN Set(M, "statements",
                             Append(Top(M).v.statements, M.ret))
                    ELSE M)

----------------------------------------------------------------------------
(* 4. Values of the evaluator *)

ListV(ref) == [t |-> "list", ref |-> ref]
\* a MiniScriptFunction object: id is the object's identity
FnV(id, decl, closure) ==
    [t |-> "fn", id |-> id, declaration |-> decl, closure |-> closure]
BuiltinV(name) == [t |-> "builtin", name |-> name]

\* the built-in callables Interpreter.__init__ defines, with their arity()
BuiltinArity ==
    (<<"p","r","i","n","t">> :> -1)
    @@ (<<"l","e","n">> :> 1)
    @@ (<<"t","i","m","e","_","n","o","w">> :> 0)
    @@ (<<"t","i","m","e","_","f","o","r","m","a","t">> :> 2)
    @@ (<<"t","i","m","e","_","p","a","r","s","e">> :> 2)
    @@ (<<"t","i","m","e","_","d","i","f","f">> :> 2)
    @@ (<<"t","i","m","e","_","y","e","a","r">> :> 1)
    @@ (<<"t","i","m","e","_","m","o","n","t","h">> :> 1)
    @@ (<<"t","i","m","e","_","d","a","y">> :> 1)
    @@ (<<"t","i","m","e","_","h","o","u","r">> :> 1)
    @@ (<<"t","i","m","e","_","m","i","n","u","t","e">> :> 1)
    @@ (<<"t","i","m","e","_","s","e","c","o","n","d">> :> 1)
    @@ (<<"t","i","m","e","_","w","e","e","k","d","a","y">> :> 1)
    @@ (<<"t","i","m","e","_","a","d","d">> :> 2)
    @@ (<<"s","l","e","e","p">> :> 1)
    @@ (<<"f","o","p","e","n">> :> 2)
    @@ (<<"f","c","l","o","s","e">> :> 1)
    @@ (<<"f","w","r","i","t","e">> :> 2)
    @@ (<<"f","r","e","a","d">> :> 1)
    @@ (<<"f","r","e","a","d","l","i","n","e">> :> 1)
    @@ (<<"f","w","r","i","t","e","l","i","n","e">> :> 2)
    @@ (<<"f","e","x","i","s","t","s">> :> 1)

\* isinstance(x, (int, float)): bool is a subclass of int in Python
IsNumber(x) == x.t \in {"int", "float", "bool"}
\* isinstance(x, int)
IsInt(x) == x.t \in {"int", "bool"}
IsCallable(x) == x.t \in {"fn", "builtin"}

\* int(x) of a bool or an int
AsInt(x) == IF x.t = "bool" THEN (IF x.v THEN 1 ELSE 0) ELSE x.v
\* float(x) of a number
ToFloat(x) == IF x.t = "float" THEN x ELSE FloatV(AsInt(x), 1)

FloatAdd(a, b) == FloatV(a.n * b.d + b.n * a.d, a.d * b.d)
FloatSub(a, b) == FloatV(a.n * b.d - b.n * a.d, a.d * b.d)
FloatMul(a, b) == FloatV(a.n * b.n, a.d * b.d)
FloatDiv(a, b) ==
    IF b.n < 0 THEN FloatV(-(a.n * b.d), a.d * (-b.n))
    ELSE FloatV(a.n * b.d, a.d * b.n)
FloatNeg(a) == FloatV(-a.n, a.d)
FloatLess(a, b) == a.n * b.d < b.n * a.d
FloatEq(a, b) == a.n * b.d = b.n * a.d

is_truthy(obj) ==
    IF obj.t = "nil" THEN FALSE
    ELSE IF obj.t = "bool" THEN obj.v
    ELSE IF IsNumber(obj) THEN ToFloat(obj).n # 0
    ELSE TRUE

\* Python's a == b on two values; lists is the heap of list objects
RECURSIVE PyEq(_, _, _)
PyEq(lists, a, b) ==
    IF IsNumber(a) /\ IsNumber(b) THEN FloatEq(ToFloat(a), ToFloat(b))
    ELSE IF a.t # b.t THEN FALSE
    ELSE IF a.t = "nil" THEN TRUE
    ELSE IF a.t = "str" THEN a.v = b.v
    ELSE IF a.t = "list"
    THEN LET x == lists[a.ref]
             y == lists[b.ref]
         IN  /\ Len(x) = Len(y)
             /\ \A i \in 1..Len(x) : PyEq(lists, x[i], y[i])
    ELSE IF a.t = "fn" THEN a.id = b.id
    ELSE a.name = b.name

is_equal(lists, a, b) ==
    IF a.t = "nil" /\ b.t = "nil" THEN TRUE
    ELSE IF a.t = "nil" THEN FALSE
    ELSE PyEq(lists, a, b)

RECURSIVE NatToChars(_)
NatToChars(n) ==
    LET d == CHOOSE c \in Digits : DigitVal(c) = n % 10
    IN  IF n < 10 THEN <<d>> ELSE Append(NatToChars(n \div 10), d)

\* str(n) of an int
IntToChars(n) == IF n < 0 THEN <<"-">> \o NatToChars(-n) ELSE NatToChars(n)

MaxFracDigits == 16

\* the digits of r/d after the decimal point, r < d
RECURSIVE FracChars(_, _, _)
FracChars(r, d, k) ==
    IF r = 0 \/ k = 0 THEN <<>>
    ELSE NatToChars((10 * r) \div d) \o FracChars((10 * r) % d, d, k - 1)

\* str(x) of a float: always with a fractional part, '.0' when integral
FloatToChars(x) ==
    LET a == Abs(x.n)
        sign == IF x.n < 0 THEN <<"-">> ELSE <<>>
        frac == FracChars(a % x.d, x.d, MaxFracDigits)
    IN  sign \o NatToChars(a \div x.d) \o <<".">>
        \o (IF frac = <<>> THEN <<"0">> ELSE frac)

endswith(text, suffix) ==
    /\ Len(text) >= Len(suffix)
    /\ SubSeq(text, Len(text) - Len(suffix) + 1, Len(text)) = suffix

\* repr(x) of Python, which str(list) applies to the elements
RECURSIVE PyRepr(_, _), PyReprElems(_, _)
PyRepr(lists, obj) ==
    IF obj.t = "nil" THEN <<"N","o","n","e">>
    ELSE IF obj.t = "bool"
    THEN (IF obj.v THEN <<"T","r","u","e">> ELSE <<"F","a","l","s","e">>)
    ELSE IF obj.t = "int" THEN IntToChars(obj.v)
    ELSE IF obj.t = "float" THEN FloatToChars(obj)
    ELSE IF obj.t = "str" THEN <<SQ>> \o obj.v \o <<SQ>>
    ELSE IF obj.t = "list"
    THEN <<"[">> \o PyReprElems(lists, lists[obj.ref]) \o <<"]">>
    ELSE <<"<","o","b","j","e","c","t",">">>

PyReprElems(lists, elems) ==
    IF elems = <<>> THEN <<>>
    ELSE IF Len(elems) = 1 THEN PyRepr(lists, elems[1])
    ELSE PyRepr(lists, elems[1]) \o <<",", " ">> \o PyReprElems(lists, Tail(elems))

stringify(lists, obj) ==
    IF obj.t = "nil" THEN <<"n","i","l">>
    ELSE IF obj.t = "float"
    THEN LET text == FloatToChars(obj)
         IN  IF endswith(text, <<".", "0">>)
             THEN SubSeq(text, 1, Len(text) - 2) ELSE text
    ELSE IF obj.t = "bool"
    THEN (IF obj.v THEN <<"t","r","u","e">> ELSE <<"f","a","l","s","e">>)
    \* return str(obj)
    ELSE IF obj.t = "int" THEN IntToChars(obj.v)
    ELSE IF obj.t = "str" THEN obj.v
    ELSE IF obj.t = "list" THEN PyRepr(lists, obj)
    ELSE IF obj.t = "fn"
    THEN <<"<","f","n"," ">> \o obj.declaration.name.lexeme \o <<">">>
    ELSE <<"<","n","a","t","i","v","e"," ","f","n",">">>

----------------------------------------------------------------------------
(* Paths (os.path of a POSIX host) and the files of the host.  A path is   *)
(* a string; fs maps the absolute path of each regular file to its text.   *)

startswith(text, prefix) ==
    Len(text) >= Len(prefix) /\ SubSeq(text, 1, Len(prefix)) = prefix

\* text.split(sep) for a one-character sep
RECURSIVE SplitFrom(_, _, _, _)
SplitFrom(text, sep, i, piece) ==
    IF i > Len(text) THEN <<piece>>
    ELSE IF text[i] = sep
    THEN <<piece>> \o SplitFrom(text, sep, i + 1, <<>>)
    ELSE SplitFrom(text, sep, i + 1, Append(piece, text[i]))

split(text, sep) == SplitFrom(text, sep, 1, <<>>)

isabs(path) == startswith(path, <<"/">>)

\* os.path.join(a, b)
join(a, b) ==
    IF isabs(b) THEN b
    ELSE IF a = <<>> \/ endswith(a, <<"/">>) THEN a \o b
    ELSE a \o <<"/">> \o b

\* the components of normpath: '' and '.' dropped, '..' cancels a name
RECURSIVE NormComps(_, _, _)
NormComps(comps, acc, absolute) ==
    IF comps = <<>> THEN acc
    ELSE LET c == Head(comps)
         IN  IF c = <<>> \/ c = <<".">>
             THEN NormComps(Tail(comps), acc, absolute)
             ELSE IF c = <<".", ".">>
             THEN IF acc # <<>> /\ acc[Len(acc)] # <<".", ".">>
                  THEN NormComps(Tail(comps), SubSeq(acc, 1, Len(acc) - 1),
                                 absolute)
                  ELSE IF absolute THEN NormComps(Tail(comps), acc, absolute)
                  ELSE NormComps(Tail(comps), Append(acc, c), absolute)
             ELSE NormComps(Tail(comps), Append(acc, c), absolute)

RECURSIVE JoinSlash(_)
JoinSlash(comps) ==
    IF comps = <<>> THEN <<>>
    ELSE IF Len(comps) = 1 THEN comps[1]
    ELSE comps[1] \o <<"/">> \o JoinSlash(Tail(comps))

normpath(path) ==
    LET comps == NormComps(split(path, "/"), <<>>, isabs(path))
        body == JoinSlash(comps)
    IN  IF isabs(path) THEN <<"/">> \o body
        ELSE IF body = <<>> THEN <<".">> ELSE body

abspath(cwd, path) == normpath(join(cwd, path))

\* os.path.dirname(path): up to the last '/', trailing slashes stripped
\* unless the head is all slashes
RECURSIVE rstrip_slash(_)
rstrip_slash(text) ==
    IF text # <<>> /\ text[Len(text)] = "/"
    THEN rstrip_slash(SubSeq(text, 1, Len(text) - 1))
    ELSE text

dirname(path) ==
    LET slashes == {i \in 1..Len(path) : path[i] = "/"}
        i == IF slashes = {} THEN 0
             ELSE CHOOSE k \in slashes : \A j \in slashes : j <= k
        head == SubSeq(path, 1, i)
    IN  IF head # <<>> /\ rstrip_slash(head) # <<>> THEN rstrip_slash(head)
        ELSE head

\* os.path.exists(path) and os.path.isfile(path)
isfile(os, path) == abspath(os.cwd, path) \in DOMAIN os.fs

----------------------------------------------------------------------------
(* 5. Interpreter.  An interpreter state I holds the heap of Environment   *)
(* objects (envs, an Environment is named by its index, 0 is None), the    *)
(* heap of list objects, the fields globals, environment and filename of   *)
(* the Interpreter, what the process has printed (out) and the process's   *)
(* surroundings (os: working directory, MODULESPATH, files).  log, call    *)
(* and ncalls are history: the events of the run, the user-function call   *)
(* in progress (0 at top level) and the number of calls made.              *)
(*                                                                         *)
(* An operation that calls no method returns [I, k, v]: the state it       *)
(* leaves, how it ended (k = "ok", or the Python exception that leaves it) *)
(* and the value it returned or the exception carries.                     *)

Done(I, v) == [I |-> I, k |-> "ok", v |-> v]
Throw(I, k, v) == [I |-> I, k |-> k, v |-> v]

\* raise RuntimeError(token, message)
RuntimeError(I, token, message) ==
    Throw(I, "RuntimeError", [token |-> token, message |-> message])

NoToken == Token("None", <<>>, Nil, 0)

Event(I, e) == [I EXCEPT !.log = Append(I.log, e)]

Stdout(I, line) == [I EXCEPT !.out = Append(I.out, line)]

\* Environment(enclosing): the new object is the last of the heap
Environment(I, enclosing) ==
    [I EXCEPT !.envs = Append(I.envs,
        [values |-> <<>>, enclosing |-> enclosing])]

NewEnv(I) == Len(I.envs)

\* the dict values of an Environment is a function on the names it binds;
\* the empty dict is the empty function <<>>
Environment_define(I, env, name, value) ==
    [I EXCEPT !.envs[env].values =
        (name :> value) @@ [n \in DOMAIN @ \ {name} |-> @[n]]]

RECURSIVE Environment_get(_, _, _)
Environment_get(I, env, name_token) ==
    LET name == name_token.lexeme
    IN  IF name \in DOMAIN I.envs[env].values
        THEN Done(I, I.envs[env].values[name])
        ELSE IF I.envs[env].enclosing # 0
        THEN Environment_get(I, I.envs[env].enclosing, name_token)
        ELSE RuntimeError(I, name_token,
                Msg("Undefined variable '{}'.", <<name>>))

\* assign as it would be without the walk up the chain: the name is bound
\* in the environment the assignment runs in
Environment_assign_current(I, env, name_token, value) ==
    Environment_define(I, env, name_token.lexeme, value)

RECURSIVE Environment_assign(_, _, _, _)
Environment_assign(I, env, name_token, value) ==
    LET name == name_token.lexeme
    IN  IF name \in DOMAIN I.envs[env].values
        THEN Environment_define(I, env, name, value)
        ELSE IF I.envs[env].enclosing = 0
        THEN Environment_define(I, env, name, value)
        ELSE Environment_assign(I, I.envs[env].enclosing, name_token, value)

\* the end of a method with the outcome r of a step that calls no method
Finish(M, r) ==
    IF r.k = "ok" THEN Return([M EXCEPT !.I = r.I], r.v)
    ELSE Raise([M EXCEPT !.I = r.I], r.k, r.v)

\* self.evaluate(expr), the method running continuing at pc
CallEvaluate(M, pc, expr) == Invoke(M, pc, "evaluate", [expr |-> expr])

\* self.execute(stmt), the method running continuing at pc
CallExecute(M, pc, stmt) == Invoke(M, pc, "execute", [stmt |-> stmt])

check_number_operand(operand) == IsNumber(operand)

check_number_operands(left, right) == IsNumber(left) /\ IsNumber(right)

visit_literal_expr(M) == Return(M, Top(M).v.expr.value)

\* evaluate_all as it would be if it evaluated the expressions from the last
\* to the first
evaluate_all_last_first(M) ==
    LET loop(N) ==
            IF Top(N).v.exprs = <<>> THEN Return(N, Top(N).v.values)
            ELSE LET exprs == Top(N).v.exprs
                 IN  CallEvaluate(Set(N, "exprs",
                                      SubSeq(exprs, 1, Len(exprs) - 1)),
                                  1, exprs[Len(exprs)])
    IN  CASE Top(M).pc = 0 -> loop(M)
          [] Top(M).pc = 1 ->
               loop(Set(M, "values", <<M.ret>> \o Top(M).v.values))

\* [self.evaluate(e) for e in exprs]: left to right, the first exception
\* ends it
evaluate_all(M) ==
    LET loop(N) ==
            IF Top(N).v.exprs = <<>> THEN Return(N, Top(N).v.values)
            ELSE CallEvaluate(Set(N, "exprs", Tail(Top(N).v.exprs)), 1,
                              Head(Top(N).v.exprs))
    IN  CASE Top(M).pc = 0 -> loop(M)
          [] Top(M).pc = 1 ->
               loop(Set(M, "values", Append(Top(M).v.values, M.ret)))

visit_listliteral_expr(M) ==
    CASE Top(M).pc = 0 ->
           Invoke(M, 1, "evaluate_all", [exprs |-> Top(M).v.expr.elements])
      [] Top(M).pc = 1 ->
           Return([M EXCEPT !.I.lists = Append(M.I.lists, M.ret)],
                  ListV(Len(M.I.lists) + 1))

visit_get_expr(M) ==
    LET expr == Top(M).v.expr
        obj == Top(M).v.obj
        index == M.ret
    IN  CASE Top(M).pc = 0 -> CallEvaluate(M, 1, expr.object)
          [] Top(M).pc = 1 ->
               IF M.ret.t = "list"
               THEN CallEvaluate(Set(M, "obj", M.ret), 2, expr.index)
               ELSE Finish(M, RuntimeError(M.I, NoToken,
                                Msg("Can only index lists.", <<>>)))
          [] Top(M).pc = 2 ->
               IF IsInt(index)
               THEN IF 0 <= AsInt(index)
                       /\ AsInt(index) < Len(M.I.lists[obj.ref])
                    THEN Return(M, M.I.lists[obj.ref][AsInt(index) + 1])
                    ELSE Finish(M, RuntimeError(M.I, NoToken,
                                     Msg("List index out of range.", <<>>)))
               ELSE Finish(M, RuntimeError(M.I, NoToken,
                                Msg("List index must be an integer.", <<>>)))

visit_set_expr(M) ==
    LET expr == Top(M).v.expr
        obj == Top(M).v.obj
    IN  CASE Top(M).pc = 0 -> CallEvaluate(M, 1, expr.object)
          [] Top(M).pc = 1 ->
               IF M.ret.t = "list"
               THEN CallEvaluate(Set(M, "obj", M.ret), 2, expr.index)
               ELSE Finish(M, RuntimeError(M.I, NoToken,
                                Msg("Can only set elements of lists.", <<>>)))
          [] Top(M).pc = 2 ->
               IF IsInt(M.ret)
               THEN IF 0 <= AsInt(M.ret)
                       /\ AsInt(M.ret) < Len(M.I.lists[obj.ref])
                    THEN CallEvaluate(Set(M, "index", M.ret), 3, expr.value)
                    ELSE Finish(M, RuntimeError(M.I, NoToken,
                                     Msg("List index out of range.", <<>>)))
               ELSE Finish(M, RuntimeError(M.I, NoToken,
                                Msg("List index must be an integer.", <<>>)))
          [] Top(M).pc = 3 ->
               Return([M EXCEPT
                         !.I.lists[obj.ref][AsInt(Top(M).v.index) + 1] = M.ret],
                      M.ret)

visit_variable_expr(M) ==
    Finish(M, Environment_get(M.I, M.I.environment, Top(M).v.expr.name))

visit_assign_expr(M) ==
    LET expr == Top(M).v.expr
    IN  CASE Top(M).pc = 0 -> CallEvaluate(M, 1, expr.value)
          [] Top(M).pc = 1 ->
               LET I1 == Environment_assign(M.I, M.I.environment, expr.name,
                                            M.ret)
               IN  Return([M EXCEPT !.I =
                             Event(I1, [ev |-> "assign",
                                        name |-> expr.name.lexeme,
                                        value |-> M.ret,
                                        environment |-> M.I.environment,
                                        before |-> M.I.envs,
                                        after |-> I1.envs])],
                          M.ret)

visit_grouping_expr(M) ==
    Become(M, "evaluate", [expr |-> Top(M).v.expr.expression])

visit_unary_expr(M) ==
    LET expr == Top(M).v.expr
        right == M.ret
        op_type == expr.operator.type
    IN  CASE Top(M).pc = 0 -> CallEvaluate(M, 1, expr.right)
          [] Top(M).pc = 1 ->
               IF op_type = "MINUS"
               THEN IF check_number_operand(right)
                    THEN Return(M, FloatNeg(ToFloat(right)))
                    ELSE Finish(M, RuntimeError(M.I, expr.operator,
                                     Msg("Operand must be a number.", <<>>)))
               ELSE IF op_type = "NOT"
               THEN Return(M, BoolV(~is_truthy(right)))
               ELSE Return(M, Nil)

\* visit_logical_expr as it would be if it returned the operand that
\* decides the result instead of its truthiness
visit_logical_expr_operand(M) ==
    LET expr == Top(M).v.expr
        left == M.ret
    IN  CASE Top(M).pc = 0 -> CallEvaluate(M, 1, expr.left)
          [] Top(M).pc = 1 ->
               IF expr.operator.type = "OR" /\ is_truthy(left)
               THEN Return(M, left)
               ELSE IF expr.operator.type # "OR" /\ ~is_truthy(left)
               THEN Return(M, left)
               ELSE CallEvaluate(M, 2, expr.right)
          [] Top(M).pc = 2 -> Return(M, M.ret)

visit_logical_expr(M) ==
    LET expr == Top(M).v.expr
        left == M.ret
    IN  CASE Top(M).pc = 0 -> CallEvaluate(M, 1, expr.left)
          [] Top(M).pc = 1 ->
               IF expr.operator.type = "OR" /\ is_truthy(left)
               THEN Return(M, BoolV(TRUE))
               ELSE IF expr.operator.type # "OR" /\ ~is_truthy(left)
               THEN Return(M, BoolV(FALSE))
               ELSE CallEvaluate(M, 2, expr.right)
          [] Top(M).pc = 2 -> Return(M, BoolV(is_truthy(M.ret)))

\* the arithmetic and comparison operators that check_number_operands guards
NumericOp(op_type, a, b) ==
    CASE op_type = "MINUS" -> FloatSub(a, b)
      [] op_type = "MULTIPLY" -> FloatMul(a, b)
      [] op_type = "DIVIDE" -> FloatDiv(a, b)
      [] op_type = "GREATER" -> BoolV(FloatLess(b, a))
      [] op_type = "GREATER_EQUAL" -> BoolV(~FloatLess(a, b))
      [] op_type = "LESS" -> BoolV(FloatLess(a, b))
      [] op_type = "LESS_EQUAL" -> BoolV(~FloatLess(b, a))

visit_binary_expr(M) ==
    LET expr == Top(M).v.expr
        left == Top(M).v.left
        right == M.ret
        op_type == expr.operator.type
        J == M.I
    IN  CASE Top(M).pc = 0 -> CallEvaluate(M, 1, expr.left)
          [] Top(M).pc = 1 ->
               CallEvaluate(Set(M, "left", M.ret), 2, expr.right)
          [] Top(M).pc = 2 ->
               IF op_type = "PLUS"
               THEN IF IsNumber(left) /\ IsNumber(right)
                    THEN Return(M, FloatAdd(ToFloat(left), ToFloat(right)))
                    ELSE Return(M, StrV(stringify(J.lists, left)
                                        \o stringify(J.lists, right)))
               ELSE IF op_type \in {"MINUS", "MULTIPLY", "DIVIDE", "GREATER",
                                    "GREATER_EQUAL", "LESS", "LESS_EQUAL"}
               THEN IF ~check_number_operands(left, right)
                    THEN Finish(M, RuntimeError(J, expr.operator,
                                     Msg("Operands must be numbers.", <<>>)))
                    ELSE IF op_type = "DIVIDE" /\ ToFloat(right).n = 0
                    THEN Finish(M, RuntimeError(J, expr.operator,
                                     Msg("Division by zero.", <<>>)))
                    ELSE Return(M, NumericOp(op_type, ToFloat(left),
                                             ToFloat(right)))
               ELSE IF op_type = "EQUAL"
               THEN Return(M, BoolV(is_equal(J.lists, left, right)))
               ELSE IF op_type = "NOT_EQUAL"
               THEN Return(M, BoolV(~is_equal(J.lists, left, right)))
               ELSE Return(M, Nil)

\* callee.arity()
Callable_arity(callee) ==
    IF callee.t = "fn" THEN Len(callee.declaration.params)
    ELSE BuiltinArity[callee.name]

\* print(*strings): the strings separated by one space, as one line
RECURSIVE JoinSpace(_)
JoinSpace(strings) ==
    IF strings = <<>> THEN <<>>
    ELSE IF Len(strings) = 1 THEN strings[1]
    ELSE strings[1] \o <<" ">> \o JoinSpace(Tail(strings))

PrintLine(I, values) ==
    Stdout(I, [kind |-> "print",
               text |-> JoinSpace([i \in 1..Len(values) |->
                                      stringify(I.lists, values[i])])])

BuiltinPrint_call(I, arguments) == Done(PrintLine(I, arguments), Nil)

BuiltinLen_call(I, arguments) ==
    LET arg == arguments[1]
    IN  IF arg.t = "str" THEN Done(I, IntV(Len(arg.v)))
        ELSE IF arg.t = "list" THEN Done(I, IntV(Len(I.lists[arg.ref])))
        ELSE RuntimeError(I, NoToken,
               Msg("len() expects a string or a list.", <<>>))

\* return callee.call(self, arguments); only print and len are modelled
\* among the built-ins (the others read the clock and files of the host)
Callable_call(M, callee, arguments) ==
    IF callee.t = "fn"
    THEN Become(M, "MiniScriptFunction_call",
                [fn |-> callee, arguments |-> arguments])
    ELSE IF callee.name = <<"p","r","i","n","t">>
    THEN Finish(M, BuiltinPrint_call(M.I, arguments))
    ELSE IF callee.name = <<"l","e","n">>
    THEN Finish(M, BuiltinLen_call(M.I, arguments))
    ELSE Raise(M, "NotModelled", Nil)

\* visit_call_expr as it would be if only a call with too few arguments
\* were refused
visit_call_expr_too_few(M) ==
    LET expr == Top(M).v.expr
        callee == Top(M).v.callee
        arguments == M.ret
    IN  CASE Top(M).pc = 0 -> CallEvaluate(M, 1, expr.callee)
          [] Top(M).pc = 1 ->
               Invoke(Set(M, "callee", M.ret), 2, "evaluate_all",
                      [exprs |-> expr.arguments])
          [] Top(M).pc = 2 ->
               IF ~IsCallable(callee)
               THEN Finish(M, RuntimeError(M.I, expr.paren,
                        Msg("Can only call functions and classes.", <<>>)))
               ELSE IF Callable_arity(callee) # -1
                       /\ Len(arguments) < Callable_arity(callee)
               THEN Finish(M, RuntimeError(M.I, expr.paren,
                        Msg("Expected {} args but got {}.",
                            <<IntToChars(Callable_arity(callee)),
                              IntToChars(Len(arguments))>>)))
               ELSE Callable_call(M, callee, arguments)

visit_call_expr(M) ==
    LET expr == Top(M).v.expr
        callee == Top(M).v.callee
        arguments == M.ret
    IN  CASE Top(M).pc = 0 -> CallEvaluate(M, 1, expr.callee)
          [] Top(M).pc = 1 ->
               Invoke(Set(M, "callee", M.ret), 2, "evaluate_all",
                      [exprs |-> expr.arguments])
          [] Top(M).pc = 2 ->
               IF ~IsCallable(callee)
               THEN Finish(M, RuntimeError(M.I, expr.paren,
                        Msg("Can only call functions and classes.", <<>>)))
               ELSE IF Callable_arity(callee) # -1
                       /\ Len(arguments) # Callable_arity(callee)
               THEN Finish(M, RuntimeError(M.I, expr.paren,
                        Msg("Expected {} args but got {}.",
                            <<IntToChars(Callable_arity(callee)),
                              IntToChars(Len(arguments))>>)))
               ELSE Callable_call(M, callee, arguments)

\* expr.accept(self)
ExprVisitor(kind) ==
    CASE kind = "Literal" -> "visit_literal_expr"
      [] kind = "ListLiteral" -> "visit_listliteral_expr"
      [] kind = "Get" -> "visit_get_expr"
      [] kind = "Set" -> "visit_set_expr"
      [] kind = "Variable" -> "visit_variable_expr"
      [] kind = "Assign" -> "visit_assign_expr"
      [] kind = "Grouping" -> "visit_grouping_expr"
      [] kind = "Unary" -> "visit_unary_expr"
      [] kind = "Logical" -> "visit_logical_expr"
      [] kind = "Binary" -> "visit_binary_expr"
      [] kind = "Call" -> "visit_call_expr"

evaluate(M) ==
    Become(M, ExprVisitor(Top(M).v.expr.kind), [expr |-> Top(M).v.expr])

\* environment.define(param.lexeme, arguments[i]) for each parameter
RECURSIVE define_params(_, _, _, _)
define_params(I, env, params, arguments) ==
    IF params = <<>> THEN I
    ELSE define_params(
            Environment_define(I, env, Head(params).lexeme, Head(arguments)),
            env, Tail(params), Tail(arguments))

\* call as it would be under dynamic scoping: the parent of the environment
\* of the call is the caller's environment, not the closure
MiniScriptFunction_call_dynamic(M) ==
    LET v == Top(M).v
        I == M.I
        exit(how, value) ==
            [M EXCEPT !.exc = NoExc,
                      !.I = Event([I EXCEPT !.call = v.outer],
                                  [ev |-> "call_exit", call |-> v.id,
                                   how |-> how, value |-> value,
                                   environment |-> I.environment,
                                   caller |-> v.caller])]
    IN  IF M.exc.k = "ReturnValue"
        THEN Return(exit("ReturnValue", M.exc.v), M.exc.v)
        ELSE IF M.exc.k # "none"
        THEN Raise(exit(M.exc.k, Nil), M.exc.k, M.exc.v)
        ELSE CASE Top(M).pc = 0 ->
                    LET I1 == Environment(I, I.environment)
                        env == NewEnv(I1)
                        I2 == define_params(I1, env, v.fn.declaration.params,
                                            v.arguments)
                        id == I.ncalls + 1
                        I3 == Event([I2 EXCEPT !.call = id, !.ncalls = id],
                                    [ev |-> "call", call |-> id,
                                     fn |-> v.fn.id,
                                     closure |-> v.fn.closure, env |-> env,
                                     fresh |-> env \notin 1..Len(I.envs),
                                     enclosing |-> I2.envs[env].enclosing,
                                     caller |-> I.environment])
                        N == [M EXCEPT !.I = I3,
                                !.stack[Len(M.stack)].v =
                                    [v EXCEPT !.id = id, !.outer = I.call,
                                              !.caller = I.environment]]
                    IN  Invoke(N, 1, "execute_block",
                               [statements |-> v.fn.declaration.body,
                                environment |-> env])
               [] Top(M).pc = 1 -> Return(exit("ok", Nil), Nil)

\* call(interpreter, arguments): id, outer (the call in progress at entry)
\* and caller (the environment at entry) are history
MiniScriptFunction_call(M) ==
    LET v == Top(M).v
        I == M.I
        exit(how, value) ==
            [M EXCEPT !.exc = NoExc,
                      !.I = Event([I EXCEPT !.call = v.outer],
                                  [ev |-> "call_exit", call |-> v.id,
                                   how |-> how, value |-> value,
                                   environment |-> I.environment,
                                   caller |-> v.caller])]
    IN  IF M.exc.k = "ReturnValue"
        THEN Return(exit("ReturnValue", M.exc.v), M.exc.v)
        ELSE IF M.exc.k # "none"
        THEN Raise(exit(M.exc.k, Nil), M.exc.k, M.exc.v)
        ELSE CASE Top(M).pc = 0 ->
                    LET I1 == Environment(I, v.fn.closure)
                        env == NewEnv(I1)
                        I2 == define_params(I1, env, v.fn.declaration.params,
                                            v.arguments)
                        id == I.ncalls + 1
                        I3 == Event([I2 EXCEPT !.call = id, !.ncalls = id],
                                    [ev |-> "call", call |-> id,
                                     fn |-> v.fn.id,
                                     closure |-> v.fn.closure, env |-> env,
                                     fresh |-> env \notin 1..Len(I.envs),
                                     enclosing |-> I2.envs[env].enclosing,
                                     caller |-> I.environment])
                        N == [M EXCEPT !.I = I3,
                                !.stack[Len(M.stack)].v =
                                    [v EXCEPT !.id = id, !.outer = I.call,
                                              !.caller = I.environment]]
                    IN  Invoke(N, 1, "execute_block",
                               [statements |-> v.fn.declaration.body,
                                environment |-> env])
               [] Top(M).pc = 1 -> Return(exit("ok", Nil), Nil)

\* history: the exit of execute_block with the local variables v, and what
\* entry kept when the block was entered (the length of the log, the heap
\* of environments, the statements of the block)
block_exit(I, v, how) ==
    Event(I, [ev |-> "block_exit", how |-> how, entered |-> v.previous,
              environment |-> I.environment, block |-> v.environment,
              started |-> v.entry.log, before |-> v.entry.envs,
              after |-> I.envs, body |-> v.entry.body])

\* execute_block as it would be without the finally clause: the environment
\* is put back on normal completion only
execute_block_no_finally(M) ==
    LET v == Top(M).v
        exit(N, how) == [N EXCEPT !.I = block_exit(N.I, Top(N).v, how)]
        loop(N) ==
            IF Top(N).v.statements = <<>>
            THEN Return(exit([N EXCEPT !.I.environment = Top(N).v.previous],
                             "ok"),
                        Nil)
            ELSE CallExecute(Set(N, "statements", Tail(Top(N).v.statements)),
                             1, Head(Top(N).v.statements))
    IN  IF M.exc.k # "none"
        THEN Propagate(exit(M, M.exc.k))
        ELSE CASE Top(M).pc = 0 ->
                    loop(Set([M EXCEPT !.I.environment = v.environment,
                                       !.stack[Len(M.stack)].v.entry =
                                           [log |-> Len(M.I.log),
                                            envs |-> M.I.envs,
                                            body |-> v.statements]],
                             "previous", M.I.environment))
               [] Top(M).pc = 1 -> loop(M)

\* previous = self.environment; try: ... finally: self.environment = previous
execute_block(M) ==
    LET v == Top(M).v
        exit(N, how) == [N EXCEPT !.I = block_exit(N.I, Top(N).v, how)]
        loop(N) ==
            IF Top(N).v.statements = <<>>
            THEN Return(exit([N EXCEPT !.I.environment = Top(N).v.previous],
                             "ok"),
                        Nil)
            ELSE CallExecute(Set(N, "statements", Tail(Top(N).v.statements)),
                             1, Head(Top(N).v.statements))
    IN  IF M.exc.k # "none"
        THEN Propagate(exit([M EXCEPT !.I.environment = v.previous],
                            M.exc.k))
        ELSE CASE Top(M).pc = 0 ->
                    loop(Set([M EXCEPT !.I.environment = v.environment,
                                       !.stack[Len(M.stack)].v.entry =
                                           [log |-> Len(M.I.log),
                                            envs |-> M.I.envs,
                                            body |-> v.statements]],
                             "previous", M.I.environment))
               [] Top(M).pc = 1 -> loop(M)

\* visit_var_stmt as it would be if it defined the name in the globals
visit_var_stmt_globals(M) ==
    LET stmt == Top(M).v.stmt
        define(value) ==
            Return([M EXCEPT !.I = Environment_define(M.I, M.I.globals,
                                        stmt.name.lexeme, value)], Nil)
    IN  CASE Top(M).pc = 0 ->
               IF stmt.initializer # NoNode
               THEN CallEvaluate(M, 1, stmt.initializer)
               ELSE define(Nil)
          [] Top(M).pc = 1 -> define(M.ret)

\* visit_var_stmt as it would be if a variable took a copy of a list it is
\* initialised with
visit_var_stmt_copy(M) ==
    LET stmt == Top(M).v.stmt
        define(value) ==
            IF value.t = "list"
            THEN Return([M EXCEPT !.I = Environment_define(
                            [M.I EXCEPT !.lists =
                                Append(@, M.I.lists[value.ref])],
                            M.I.environment, stmt.name.lexeme,
                            ListV(Len(M.I.lists) + 1))], Nil)
            ELSE Return([M EXCEPT !.I = Environment_define(M.I,
                            M.I.environment, stmt.name.lexeme, value)], Nil)
    IN  CASE Top(M).pc = 0 ->
               IF stmt.initializer # NoNode
               THEN CallEvaluate(M, 1, stmt.initializer)
               ELSE define(Nil)
          [] Top(M).pc = 1 -> define(M.ret)

visit_var_stmt(M) ==
    LET stmt == Top(M).v.stmt
        define(value) ==
            Return([M EXCEPT !.I = Environment_define(M.I, M.I.environment,
                                        stmt.name.lexeme, value)], Nil)
    IN  CASE Top(M).pc = 0 ->
               IF stmt.initializer # NoNode
               THEN CallEvaluate(M, 1, stmt.initializer)
               ELSE define(Nil)
          [] Top(M).pc = 1 -> define(M.ret)

visit_block_stmt(M) ==
    LET I1 == Environment(M.I, M.I.environment)
    IN  Become([M EXCEPT !.I = I1], "execute_block",
               [statements |-> Top(M).v.stmt.statements,
                environment |-> NewEnv(I1)])

visit_expressionstmt_stmt(M) ==
    CASE Top(M).pc = 0 -> CallEvaluate(M, 1, Top(M).v.stmt.expression)
      [] Top(M).pc = 1 -> Return(M, Nil)

visit_print_stmt(M) ==
    CASE Top(M).pc = 0 ->
           Invoke(M, 1, "evaluate_all", [exprs |-> Top(M).v.stmt.expressions])
      [] Top(M).pc = 1 ->
           Return([M EXCEPT !.I = PrintLine(M.I, M.ret)], Nil)

visit_function_stmt(M) ==
    LET stmt == Top(M).v.stmt
        I == M.I
        function == FnV(I.nfn + 1, stmt, I.environment)
        I1 == Environment_define([I EXCEPT !.nfn = I.nfn + 1], I.environment,
                                 stmt.name.lexeme, function)
    IN  Return([M EXCEPT !.I = Event(I1, [ev |-> "function",
                                          fn |-> function.id,
                                          environment |-> I.environment])],
               Nil)

visit_if_stmt(M) ==
    LET stmt == Top(M).v.stmt
    IN  CASE Top(M).pc = 0 -> CallEvaluate(M, 1, stmt.condition)
          [] Top(M).pc = 1 ->
               IF is_truthy(M.ret) THEN CallExecute(M, 2, stmt.then_branch)
               ELSE IF stmt.else_branch # NoNode
               THEN CallExecute(M, 2, stmt.else_branch)
               ELSE Return(M, Nil)
          [] Top(M).pc = 2 -> Return(M, Nil)

\* the statement as it would be if return were an ordinary statement: the
\* value is computed and the statements after it run
visit_return_stmt_no_raise(M) ==
    LET stmt == Top(M).v.stmt
        return(value) ==
            Return([M EXCEPT !.I = Event(M.I, [ev |-> "return",
                                               call |-> M.I.call,
                                               value |-> value])],
                   Nil)
    IN  CASE Top(M).pc = 0 ->
               IF stmt.value # NoNode THEN CallEvaluate(M, 1, stmt.value)
               ELSE return(Nil)
          [] Top(M).pc = 1 -> return(M.ret)

\* raise ReturnValue(value)
visit_return_stmt(M) ==
    LET stmt == Top(M).v.stmt
        return(value) ==
            Raise([M EXCEPT !.I = Event(M.I, [ev |-> "return",
                                              call |-> M.I.call,
                                              value |-> value])],
                  "ReturnValue", value)
    IN  CASE Top(M).pc = 0 ->
               IF stmt.value # NoNode THEN CallEvaluate(M, 1, stmt.value)
               ELSE return(Nil)
          [] Top(M).pc = 1 -> return(M.ret)

\* while self.is_truthy(self.evaluate(stmt.condition)):
\*     self.execute(stmt.body)
visit_while_stmt(M) ==
    LET stmt == Top(M).v.stmt
    IN  CASE Top(M).pc = 0 -> CallEvaluate(M, 1, stmt.condition)
          [] Top(M).pc = 1 ->
               IF is_truthy(M.ret) THEN CallExecute(M, 0, stmt.body)
               ELSE Return(M, Nil)

\* visit_assert_stmt as it would be if it evaluated the message before it
\* looked at the condition
visit_assert_stmt_eager(M) ==
    LET stmt == Top(M).v.stmt
    IN  CASE Top(M).pc = 0 -> CallEvaluate(M, 1, stmt.condition)
          [] Top(M).pc = 1 ->
               CallEvaluate(M, IF is_truthy(M.ret) THEN 3 ELSE 2,
                            stmt.message)
          [] Top(M).pc = 2 ->
               Finish(M, RuntimeError(M.I, stmt.keyword,
                            Msg("Assertion failed: {}",
                                <<stringify(M.I.lists, M.ret)>>)))
          [] Top(M).pc = 3 -> Return(M, Nil)

visit_assert_stmt(M) ==
    LET stmt == Top(M).v.stmt
    IN  CASE Top(M).pc = 0 -> CallEvaluate(M, 1, stmt.condition)
          [] Top(M).pc = 1 ->
               IF ~is_truthy(M.ret) THEN CallEvaluate(M, 2, stmt.message)
               ELSE Return(M, Nil)
          [] Top(M).pc = 2 ->
               Finish(M, RuntimeError(M.I, stmt.keyword,
                            Msg("Assertion failed: {}",
                                <<stringify(M.I.lists, M.ret)>>)))

\* stmt.accept(self)
StmtVisitor(kind) ==
    CASE kind = "Block" -> "visit_block_stmt"
      [] kind = "ExpressionStmt" -> "visit_expressionstmt_stmt"
      [] kind = "Print" -> "visit_print_stmt"
      [] kind = "Function" -> "visit_function_stmt"
      [] kind = "If" -> "visit_if_stmt"
      [] kind = "Return" -> "visit_return_stmt"
      [] kind = "While" -> "visit_while_stmt"
      [] kind = "Import" -> "visit_import_stmt"
      [] kind = "Assert" -> "visit_assert_stmt"
      [] kind = "Var" -> "visit_var_stmt"

\* execute(stmt); the event records the statement as history
execute(M) ==
    LET stmt == Top(M).v.stmt
    IN  Become([M EXCEPT !.I = Event(M.I, [ev |-> "exec", kind |-> stmt.kind,
                                           call |-> M.I.call,
                                           environment |-> M.I.environment])],
               StmtVisitor(stmt.kind), [stmt |-> stmt])

\* interpret(): a RuntimeError is printed and ends the process (sys.exit(1)
\* raises SystemExit); every other exception passes through
interpret(M) ==
    LET loop(N) ==
            IF Top(N).v.statements = <<>> THEN Return(N, Nil)
            ELSE CallExecute(Set(N, "statements", Tail(Top(N).v.statements)),
                             1, Head(Top(N).v.statements))
    IN  IF M.exc.k = "RuntimeError"
        THEN Raise([M EXCEPT !.I =
                      Stdout(M.I, [kind |-> "Error", file |-> M.I.filename,
                                   line |-> M.exc.v.token.line,
                                   message |-> M.exc.v.message])],
                   "SystemExit", IntV(1))
        ELSE IF M.exc.k # "none" THEN Propagate(M)
        ELSE CASE Top(M).pc = 0 -> loop(M)
               [] Top(M).pc = 1 -> loop(M)

REPL == <<"<","R","E","P","L",">">>
UNKNOWN == <<"<","u","n","k","n","o","w","n",">">>

\* search_paths.append(p) unless p is in it already
AppendNew(paths, path) ==
    IF \E i \in 1..Len(paths) : paths[i] = path THEN paths
    ELSE Append(paths, path)

RECURSIVE AppendAllNew(_, _)
AppendAllNew(paths, more) ==
    IF more = <<>> THEN paths
    ELSE AppendAllNew(AppendNew(paths, Head(more)), Tail(more))

\* the list search_paths of visit_import_stmt
search_paths(I) ==
    LET p1 == IF I.filename # REPL /\ I.filename # UNKNOWN
              THEN <<dirname(abspath(I.os.cwd, I.filename))>>
              ELSE <<>>
        p2 == AppendNew(p1, I.os.cwd)
    IN  IF I.os.MODULESPATH # <<>>
        THEN AppendAllNew(p2, split(I.os.MODULESPATH, ";"))
        ELSE p2

\* the search as it would be with the suffix tried in a second sweep: PATH
\* in every directory first, PATH + '.ms' in every directory after
find_module_path_first(os, paths, module_path) ==
    LET plain == {i \in 1..Len(paths) :
                    isfile(os, join(paths[i], module_path))}
        ext == {i \in 1..Len(paths) :
                    /\ ~endswith(module_path, <<".", "m", "s">>)
                    /\ isfile(os, join(paths[i], module_path)
                                    \o <<".", "m", "s">>)}
        first(S) == CHOOSE i \in S : \A j \in S : i <= j
    IN  IF plain # {} THEN join(paths[first(plain)], module_path)
        ELSE IF ext # {}
        THEN join(paths[first(ext)], module_path) \o <<".", "m", "s">>
        ELSE <<>>

\* the loop over search_paths: the path found, or <<>> for None
RECURSIVE find_module(_, _, _)
find_module(os, paths, module_path) ==
    IF paths = <<>> THEN <<>>
    ELSE LET test_path == join(Head(paths), module_path)
             test_path_ext == test_path \o <<".", "m", "s">>
         IN  IF isfile(os, test_path) THEN test_path
             ELSE IF ~endswith(module_path, <<".", "m", "s">>)
                     /\ isfile(os, test_path_ext)
             THEN test_path_ext
             ELSE find_module(os, Tail(paths), module_path)


visit_import_stmt(M) ==
    LET v == Top(M).v
        I == M.I
        module_path == v.stmt.path_token.literal.v
        found_path == find_module(I.os, search_paths(I), module_path)
        \* the end of the statement, as history
        exit(how) ==
            [M EXCEPT !.I = Event(I, [ev |-> "import_exit", how |-> how,
                                      path |-> v.found_path,
                                      call |-> I.call,
                                      before |-> v.before,
                                      filename |-> I.filename])]
    IN  IF M.exc.k # "none" THEN Propagate(exit(M.exc.k))
        ELSE CASE Top(M).pc = 0 ->
                    IF found_path = <<>>
                    THEN Finish(M, RuntimeError(I, v.stmt.path_token,
                                     Msg("Cannot find module: {}",
                                         <<module_path>>)))
                    ELSE Invoke([M EXCEPT
                                   !.I = Event(I, [ev |-> "import",
                                                   path |-> found_path,
                                                   filename |-> I.filename]),
                                   !.stack[Len(M.stack)].v =
                                       [v EXCEPT !.found_path = found_path,
                                                 !.before = I.filename]],
                                1, "run_file", [path |-> found_path])
               [] Top(M).pc = 1 -> Return(exit("ok"), Nil)

\* Interpreter.__init__
Interpreter(filename, os) ==
    [envs |-> <<[values |-> [n \in DOMAIN BuiltinArity |-> BuiltinV(n)],
                 enclosing |-> 0]>>,
     lists |-> <<>>, globals |-> 1, environment |-> 1, filename |-> filename,
     nfn |-> 0, out |-> <<>>, os |-> os, log |-> <<>>, call |-> 0,
     ncalls |-> 0]

RECURSIVE StdoutAll(_, _)
StdoutAll(I, lines) ==
    IF lines = <<>> THEN I ELSE StdoutAll(Stdout(I, Head(lines)), Tail(lines))

\* run(source, filename, interpreter_instance) with an interpreter given
run(M) ==
    LET v == Top(M).v
        I == M.I
    IN  CASE Top(M).pc = 0 ->
               LET lexer == scan_tokens(Lexer(v.source, v.filename))
                   N == Set([M EXCEPT !.I = StdoutAll(
                                        [I EXCEPT !.filename = v.filename],
                                        lexer.diags)],
                            "original_filename", I.filename)
               IN  IF lexer.raised # "none" THEN Raise(N, lexer.raised, Nil)
                   ELSE Invoke(With(N, Parser(lexer.tokens, v.filename)), 1,
                               "parse", NoArgs)
          [] Top(M).pc = 1 ->
               LET statements == M.ret
                   I3 == StdoutAll(I, M.p.diags)
               IN  IF \E i \in 1..Len(statements) : statements[i] = NoNode
                   THEN Raise([M EXCEPT !.I = [I3 EXCEPT !.filename =
                                                   v.original_filename]],
                              "SystemExit", IntV(1))
                   ELSE Invoke(Set([M EXCEPT !.I =
                                      Event(I3, [ev |-> "run",
                                                 filename |-> v.filename,
                                                 statements |-> statements,
                                                 dropped |-> M.p.dropped,
                                                 tokens |-> M.p.tokens,
                                                 diags |-> M.p.diags,
                                                 syncs |-> M.p.syncs,
                                                 decls |-> M.p.decls,
                                                 environment |->
                                                     I3.environment])],
                                   "statements", statements),
                               2, "interpret", [statements |-> statements])
          [] Top(M).pc = 2 ->
               Return([M EXCEPT !.I =
                         Event([I EXCEPT !.filename = v.original_filename],
                               [ev |-> "run_exit", filename |-> v.filename,
                                statements |-> v.statements])],
                      Nil)

\* run_file(path, interpreter_instance) with an interpreter given
run_file(M) ==
    LET v == Top(M).v
        abs_path == abspath(M.I.os.cwd, v.path)
    IN  CASE Top(M).pc = 0 ->
               IF abs_path \notin DOMAIN M.I.os.fs
               THEN Raise([M EXCEPT !.I =
                             Stdout(M.I, [kind |-> "Error: File not found",
                                          path |-> v.path])],
                          "SystemExit", IntV(1))
               ELSE Invoke(M, 1, "run", [source |-> M.I.os.fs[abs_path],
                                         filename |-> abs_path])
          [] Top(M).pc = 1 -> Return(M, Nil)

----------------------------------------------------------------------------
(* 6. The machine at work *)

\* the methods that act on an exception raised by a call they made: the
\* try statements of the program, and the methods that record as history
\* how they ended
TryMethods ==
    {"declaration", "MiniScriptFunction_call", "execute_block", "interpret",
     "visit_import_stmt"}

\* one step of the method running
Step(M) ==
    LET m == Top(M).m
    IN  IF M.exc.k # "none" /\ m \notin TryMethods THEN Propagate(M)
        ELSE CASE m = "evaluate" -> evaluate(M)
               [] m = "execute" -> execute(M)
               [] m = "visit_literal_expr" -> visit_literal_expr(M)
               [] m = "visit_variable_expr" -> visit_variable_expr(M)
               [] m = "visit_binary_expr" -> visit_binary_expr(M)
               [] m = "visit_call_expr" -> visit_call_expr(M)
               [] m = "visit_assign_expr" -> visit_assign_expr(M)
               [] m = "visit_grouping_expr" -> visit_grouping_expr(M)
               [] m = "visit_unary_expr" -> visit_unary_expr(M)
               [] m = "visit_logical_expr" -> visit_logical_expr(M)
               [] m = "visit_listliteral_expr" -> visit_listliteral_expr(M)
               [] m = "visit_get_expr" -> visit_get_expr(M)
               [] m = "visit_set_expr" -> visit_set_expr(M)
               [] m = "evaluate_all" -> evaluate_all(M)
               [] m = "MiniScriptFunction_call" -> MiniScriptFunction_call(M)
               [] m = "execute_block" -> execute_block(M)
               [] m = "visit_block_stmt" -> visit_block_stmt(M)
               [] m = "visit_expressionstmt_stmt" ->
                    visit_expressionstmt_stmt(M)
               [] m = "visit_print_stmt" -> visit_print_stmt(M)
               [] m = "visit_function_stmt" -> visit_function_stmt(M)
               [] m = "visit_if_stmt" -> visit_if_stmt(M)
               [] m = "visit_return_stmt" -> visit_return_stmt(M)
               [] m = "visit_while_stmt" -> visit_while_stmt(M)
               [] m = "visit_assert_stmt" -> visit_assert_stmt(M)
               [] m = "visit_var_stmt" -> visit_var_stmt(M)
               [] m = "visit_import_stmt" -> visit_import_stmt(M)
               [] m = "interpret" -> interpret(M)
               [] m = "run" -> run(M)
               [] m = "run_file" -> run_file(M)
               [] m = "parse" -> parse(M)
               [] m = "declaration" -> declaration(M)
               [] m = "statement" -> statement(M)
               [] m = "block" -> block(M)
               [] m = "expression" -> expression(M)
               [] m = "assignment" -> assignment(M)
               [] m = "logical_or" -> logical_or(M)
               [] m = "logical_and" -> logical_and(M)
               [] m = "equality" -> equality(M)
               [] m = "comparison" -> comparison(M)
               [] m = "term" -> term(M)
               [] m = "factor" -> factor(M)
               [] m = "unary" -> unary(M)
               [] m = "call" -> call(M)
               [] m = "finish_call" -> finish_call(M)
               [] m = "primary" -> primary(M)
               [] m = "var_declaration" -> var_declaration(M)
               [] m = "function_declaration" -> function_declaration(M)
               [] m = "print_statement" -> print_statement(M)
               [] m = "assert_statement" -> assert_statement(M)
               [] m = "import_statement" -> import_statement(M)
               [] m = "expression_statement" -> expression_statement(M)
               [] m = "return_statement" -> return_statement(M)
               [] m = "while_statement" -> while_statement(M)
               [] m = "for_statement" -> for_statement(M)
               [] m = "if_statement" -> if_statement(M)

\* the steps a call may take
MaxSteps == 4096

\* the machine after at most n steps, or when the first call has ended
RECURSIVE Steps(_, _)
Steps(M, n) ==
    IF M.stack = <<>> \/ n = 0 THEN M
    ELSE IF n = 1 THEN Step(M)
    ELSE Steps(Steps(M, n \div 2), n - n \div 2)

\* the call of the method m in the interpreter state I, run to its end
Run(I, m, args) ==
    Steps([I |-> I, p |-> Parser(<<>>, UNKNOWN), stack |-> <<Frame(m, args)>>,
           ret |-> Nil, exc |-> NoExc],
          MaxSteps)

\* how the call ended: [I, k, v], the state it leaves, "ok" or the
\* exception that leaves it, and the value returned or the exception's
Outcome(M) ==
    [I |-> M.I, k |-> IF M.exc.k = "none" THEN "ok" ELSE M.exc.k,
     v |-> IF M.exc.k = "none" THEN M.ret ELSE M.exc.v]

----------------------------------------------------------------------------
(* The lexer run one token at a time over every short source text *)

MaxSrcLen == 3

LexAlphabet == {"&", "|", DQ, SQ, "a", "1", NL, " ", "=", "/", "."}

RECURSIVE SeqsUpTo(_, _)
SeqsUpTo(S, n) ==
    IF n = 0 THEN {<<>>}
    ELSE LET shorter == SeqsUpTo(S, n - 1)
         IN  shorter \cup {Append(s, c) : s \in shorter, c \in S}

LexSources == SeqsUpTo(LexAlphabet, MaxSrcLen)

InitLex ==
    /\ \E source \in LexSources : lx = Lexer(source, UNKNOWN)
    /\ lxpc = "scan"
    /\ lxout = <<>>
    /\ interp = <<>>
    /\ hostpc = "idle"
    /\ hist = <<>>
    /\ imp = <<>>
    /\ unit = <<>>

\* while not self.is_at_end(): self.start = self.current; self.scan_token()
ScanToken ==
    /\ lxpc = "scan"
    /\ ~Lexer_is_at_end(lx)
    /\ LET L == scan_tokens_step(lx)
       IN  /\ lx' = L
           /\ lxpc' = IF L.raised # "none" THEN "raised" ELSE "scan"
           /\ lxout' = L.diags
    /\ UNCHANGED <<hostVars, imp, unit>>

\* self.tokens.append(Token(EOF, "", None, self.line)); return self.tokens
ScanEOF ==
    /\ lxpc = "scan"
    /\ Lexer_is_at_end(lx)
    /\ lx' = scan_tokens_finish(lx)
    /\ lxpc' = "done"
    /\ lxout' = lx.diags
    /\ UNCHANGED <<hostVars, imp, unit>>

NextLex == ScanToken \/ ScanEOF

vars == <<lx, lxpc, lxout, interp, hostpc, hist, imp, unit>>

SpecLex == InitLex /\ [][NextLex]_vars

----------------------------------------------------------------------------
(* The host: main() starts the prompt loop or runs one script file.  The   *)
(* lines typed at the prompt and the files of the disk are the programs    *)
(* below.                                                                  *)

MaxLines == 2

\* print 1;x;print 2;
LineFault == <<"p", "r", "i", "n", "t", " ", "1", ";", "x", ";", "p", "r",
    "i", "n", "t", " ", "2", ";">>

\* print 3;
LinePrint == <<"p", "r", "i", "n", "t", " ", "3", ";">>

\* print 1;var=3;print 2;
LineDrop == <<"p", "r", "i", "n", "t", " ", "1", ";", "v", "a", "r", "=",
    "3", ";", "p", "r", "i", "n", "t", " ", "2", ";">>

\* var a=1;{var a=2;{a=3;b=4;}}print a,b;
LineAssign == <<"v", "a", "r", " ", "a", "=", "1", ";", "{", "v", "a", "r",
    " ", "a", "=", "2", ";", "{", "a", "=", "3", ";", "b", "=", "4", ";",
    "}", "}", "p", "r", "i", "n", "t", " ", "a", ",", "b", ";">>

\* function m(){var c=0;function i(){c=c+1;return c;}return i;}
LineCounter == <<"f", "u", "n", "c", "t", "i", "o", "n", " ", "m", "(",
    ")", "{", "v", "a", "r", " ", "c", "=", "0", ";", "f", "u", "n", "c",
    "t", "i", "o", "n", " ", "i", "(", ")", "{", "c", "=", "c", "+", "1",
    ";", "r", "e", "t", "u", "r", "n", " ", "c", ";", "}", "r", "e", "t",
    "u", "r", "n", " ", "i", ";", "}">>

\* var a=m();print a();print a();print a();var b=m();print b();print a();
LineCount == <<"v", "a", "r", " ", "a", "=", "m", "(", ")", ";", "p", "r",
    "i", "n", "t", " ", "a", "(", ")", ";", "p", "r", "i", "n", "t", " ",
    "a", "(", ")", ";", "p", "r", "i", "n", "t", " ", "a", "(", ")", ";",
    "v", "a", "r", " ", "b", "=", "m", "(", ")", ";", "p", "r", "i", "n",
    "t", " ", "b", "(", ")", ";", "p", "r", "i", "n", "t", " ", "a", "(",
    ")", ";">>

\* function f(){while(true){{return 1;}}print 0;}function g(){f();}print f();print g();
LineReturn == <<"f", "u", "n", "c", "t", "i", "o", "n", " ", "f", "(", ")",
    "{", "w", "h", "i", "l", "e", "(", "t", "r", "u", "e", ")", "{", "{",
    "r", "e", "t", "u", "r", "n", " ", "1", ";", "}", "}", "p", "r", "i",
    "n", "t", " ", "0", ";", "}", "f", "u", "n", "c", "t", "i", "o", "n",
    " ", "g", "(", ")", "{", "f", "(", ")", ";", "}", "p", "r", "i", "n",
    "t", " ", "f", "(", ")", ";", "p", "r", "i", "n", "t", " ", "g", "(",
    ")", ";">>

\* {}{x;}
LineBlocks == <<"{", "}", "{", "x", ";", "}">>

\* {import "m";}print v;
LineImportBlock == <<"{", "i", "m", "p", "o", "r", "t", " ", DQ, "m", DQ,
    ";", "}", "p", "r", "i", "n", "t", " ", "v", ";">>

\* function k(){import "r";print 0;}k();import "m";print v;
LineImportCall == <<"f", "u", "n", "c", "t", "i", "o", "n", " ", "k", "(",
    ")", "{", "i", "m", "p", "o", "r", "t", " ", DQ, "r", DQ, ";", "p",
    "r", "i", "n", "t", " ", "0", ";", "}", "k", "(", ")", ";", "i", "m",
    "p", "o", "r", "t", " ", DQ, "m", DQ, ";", "p", "r", "i", "n", "t",
    " ", "v", ";">>

PromptLines ==
    {LineFault, LinePrint, LineDrop, LineAssign, LineCounter, LineCount,
     LineReturn, LineBlocks, LineImportBlock, LineImportCall}

\* the working directory /w
Cwd == <<"/", "w">>

\* /w/m.ms, which holds: var v=7;
PathM == <<"/", "w", "/", "m", ".", "m", "s">>

\* var v=7;
FileM == <<"v", "a", "r", " ", "v", "=", "7", ";">>

\* /w/r.ms, which holds: return 4;
PathR == <<"/", "w", "/", "r", ".", "m", "s">>

\* return 4;
FileR == <<"r", "e", "t", "u", "r", "n", " ", "4", ";">>

\* /w/q.ms, which does not exist
PathNone == <<"/", "w", "/", "q", ".", "m", "s">>

HostOS ==
    [cwd |-> Cwd, MODULESPATH |-> <<>>,
     fs |-> (PathM :> FileM) @@ (PathR :> FileR)]

ScriptPaths == {PathM, PathR, PathNone}

Init ==
    /\ interp = Interpreter(REPL, HostOS)
    /\ hostpc = "start"
    /\ hist = <<>>
    /\ lx = <<>>
    /\ lxpc = "idle"
    /\ lxout = <<>>
    /\ imp = <<>>
    /\ unit = <<>>

\* main() without a script: run_prompt() prints its banner and makes the
\* interpreter of the session
Main_run_prompt ==
    /\ hostpc = "start"
    /\ interp' = Stdout(Interpreter(REPL, HostOS), [kind |-> "banner"])
    /\ hostpc' = "prompt"
    /\ UNCHANGED <<hist, lexVars, imp, unit>>

\* the end of main() with a script, r being what run_file left
Main_run_file_ends(M) ==
    /\ M.stack = <<>>
    /\ interp' = M.I
    /\ hostpc' = IF M.exc.k = "none" THEN "ended" ELSE "killed"

\* main() with a script: run_file(path) as the main run; the process ends
\* when it returns or when an exception leaves it
Main_run_file ==
    /\ hostpc = "start"
    /\ \E path \in ScriptPaths :
        LET I0 == Stdout(Interpreter(abspath(HostOS.cwd, path), HostOS),
                         [kind |-> "banner"])
        IN  Main_run_file_ends(Run(I0, "run_file", [path |-> path]))
    /\ UNCHANGED <<hist, lexVars, imp, unit>>

\* the end of a turn of the loop of run_prompt, r being what run left: an
\* Exception is printed, SystemExit leaves run_prompt
Prompt_line_ends(M) ==
    /\ M.stack = <<>>
    /\ interp' = IF M.exc.k \in {"none", "SystemExit"} THEN M.I
                 ELSE Stdout(M.I, [kind |-> "unexpected", error |-> M.exc.k])
    /\ hostpc' = IF M.exc.k = "SystemExit" THEN "killed" ELSE "prompt"

\* one turn of the loop of run_prompt that reads a line other than exit:
\* run(line, "<REPL>", interpreter), an Exception is printed and the loop
\* goes on, any other exception (SystemExit) leaves run_prompt
Prompt_line ==
    /\ hostpc = "prompt"
    /\ Len(hist) < MaxLines
    /\ \E line \in PromptLines :
        /\ Prompt_line_ends(Run(interp, "run",
                                [source |-> line, filename |-> REPL]))
        /\ hist' = Append(hist, line)
    /\ UNCHANGED <<lexVars, imp, unit>>

\* the line is exit, or input() raises EOFError: break
Prompt_exit ==
    /\ hostpc = "prompt"
    /\ hostpc' = "exited"
    /\ UNCHANGED <<interp, hist, lexVars, imp, unit>>

Next == Main_run_prompt \/ Main_run_file \/ Prompt_line \/ Prompt_exit

Spec == Init /\ [][Next]_vars

----------------------------------------------------------------------------
(* Import resolution: one import statement executed by an interpreter      *)
(* whose file name, working directory, MODULESPATH and disk vary           *)

MaxPathEntries == 1

\* the directory /a of the script /a/s.ms
DirA == <<"/", "a">>

\* the directories /b and /c that MODULESPATH may name
DirB == <<"/", "b">>

\* /c
DirC == <<"/", "c">>

\* /a/s.ms
ScriptA == <<"/", "a", "/", "s", ".", "m", "s">>

\* s.ms, a script named relative to the working directory
ScriptRel == <<"s", ".", "m", "s">>

\* the module paths m and m.ms of the import statement
ModPlain == <<"m">>

\* m.ms
ModExt == <<"m", ".", "m", "s">>

\* the files that may be on the disk, each holding var v=7;
ImportFiles ==
    {join(DirA, ModPlain), join(DirA, ModExt), join(Cwd, ModPlain),
     join(Cwd, ModExt), join(DirB, ModPlain), join(DirC, ModExt)}

\* the values of MODULESPATH: unset, or up to MaxPathEntries directories
\* separated by ;
RECURSIVE ModulesPaths(_)
ModulesPaths(n) ==
    IF n = 0 THEN {<<>>}
    ELSE LET shorter == ModulesPaths(n - 1)
         IN  shorter \cup {DirB, DirC}
                     \cup {mp \o <<";">> \o d :
                             mp \in shorter \ {<<>>}, d \in {DirB, DirC}}

InitImport ==
    /\ \E files \in SUBSET ImportFiles,
          mp \in ModulesPaths(MaxPathEntries),
          filename \in {REPL, ScriptA, ScriptRel},
          module \in {ModPlain, ModExt} :
        /\ interp = Interpreter(filename,
                        [cwd |-> Cwd, MODULESPATH |-> mp,
                         fs |-> [f \in files |-> FileM]])
        /\ imp = [pc |-> "ready", module |-> module]
    /\ hostpc = "idle"
    /\ hist = <<>>
    /\ lx = <<>>
    /\ lxpc = "idle"
    /\ lxout = <<>>
    /\ unit = <<>>

\* the end of the import statement, r being what visit_import_stmt left
Import_stmt_ends(M) ==
    /\ M.stack = <<>>
    /\ interp' = M.I
    /\ imp' = [pc |-> "done", module |-> imp.module, k |-> Outcome(M).k,
               v |-> Outcome(M).v, before |-> interp]

\* the interpreter executes import "module";
Import_stmt ==
    /\ imp.pc = "ready"
    /\ Import_stmt_ends(
            Run(interp, "visit_import_stmt",
                [stmt |-> Stmt_Import(
                    Token("STRING", <<DQ>> \o imp.module \o <<DQ>>,
                          StrV(imp.module), 1), NoNode)]))
    /\ UNCHANGED <<hostpc, hist, lexVars, unit>>

NextImport == Import_stmt

SpecImport == InitImport /\ [][NextImport]_vars

----------------------------------------------------------------------------
(* A single run: a new interpreter runs one source text, as run_prompt     *)
(* does with the first line it reads.  The source texts come in families,  *)
(* each the concatenation of parts drawn from small sets.                  *)

RECURSIVE Cat(_)
Cat(parts) == IF parts = <<>> THEN <<>> ELSE Head(parts) \o Cat(Tail(parts))

\* a source text of a family, with the parts it is made of
Case(family, parts) ==
    [family |-> family, parts |-> parts, source |-> Cat(parts)]

\* the statements that come before and after the statement under test
StmtBefore == <<"p", "r", "i", "n", "t", " ", "0", ";">>

\* print 9;
StmtAfter == <<"p", "r", "i", "n", "t", " ", "9", ";">>

\* statements the parser reports a syntax error in: 1=2; (a)=1; a+1=2;
\* var=3; print; x=; and statements it accepts
StmtTexts ==
    {<<"1", "=", "2", ";">>, <<"(", "a", ")", "=", "1", ";">>, <<"a", "+",
        "1", "=", "2", ";">>, <<"v", "a", "r", "=", "3", ";">>, <<"p", "r",
            "i", "n", "t", ";">>, <<"x", "=", ";">>, <<"a", "=", "1", ";">>,
     <<"[", "1", "]", "[", "0", "]", "=", "2", ";">>, <<"1", ";">>}

StatementCases ==
    {Case("statement", <<StmtBefore, s, StmtAfter>>) : s \in StmtTexts}

\* the lexemes of the token sequences given to synchronize
MaxTokens == 3

\* var, print, ;, 1 and )
SyncLexemes == {<<"v", "a", "r", " ">>, <<"p", "r", "i", "n", "t", " ">>, <<
    ";">>, <<"1", " ">>, <<")", " ">>}

SyncCases ==
    {Case("tokens", parts) : parts \in SeqsUpTo(SyncLexemes, MaxTokens) \ {<<>>}}

\* for(I;C;E)B: the parts are what comes before the loop, I, C, E and B
\* nothing or i=0; before the loop
ForBefore == {<<>>, <<"i", "=", "0", ";">>}

\* no initializer, var i=0 or i=0
ForInitializers == {<<>>, <<"v", "a", "r", " ", "i", "=", "0">>, <<"i", "=",
    "0">>}

\* no condition or (c=i)<2
ForConditions == {<<>>, <<"(", "c", "=", "i", ")", "<", "2">>}

\* no increment or n=i=i+1
ForIncrements == {<<>>, <<"n", "=", "i", "=", "i", "+", "1">>}

\* print i; or {print i;}
ForBodies == {<<"p", "r", "i", "n", "t", " ", "i", ";">>, <<"{", "p", "r",
    "i", "n", "t", " ", "i", ";", "}">>}

ForCases ==
    {Case("for", <<before, <<"f", "o", "r", "(">>, I, <<";">>, C, <<";">>, E, <<
        ")">>, B>>) :
        before \in ForBefore, I \in ForInitializers, C \in ForConditions,
        E \in ForIncrements, B \in ForBodies}

\* the lexemes of the token sequences with blocks: {, }, 1 and ;
BraceLexemes == {<<"{">>, <<"}">>, <<"1", " ">>, <<";">>}

\* the sequences of up to MaxTokens + 1 of them: blocks closed, unclosed
\* and nested, with and without syntax errors in them
BraceCases ==
    {Case("braces", parts) :
        parts \in SeqsUpTo(BraceLexemes, MaxTokens + 1) \ {<<>>}}

ParseCases == StatementCases \cup SyncCases \cup ForCases \cup BraceCases

InitUnit(cases) ==
    /\ interp = Interpreter(REPL, HostOS)
    /\ \E c \in cases : unit = [pc |-> "ready", case |-> c]
    /\ hostpc = "idle"
    /\ hist = <<>>
    /\ lx = <<>>
    /\ lxpc = "idle"
    /\ lxout = <<>>
    /\ imp = <<>>

\* the interpreter when run has returned or raised (k says which), or after
\* MaxSteps steps of a run that has not ended (k = "running")
Unit_run_ends(M) ==
    /\ interp' = M.I
    /\ unit' = [pc |-> "done", case |-> unit.case,
                k |-> IF M.stack # <<>> THEN "running" ELSE Outcome(M).k,
                v |-> IF M.stack # <<>> THEN Nil ELSE Outcome(M).v]

\* run(source, "<REPL>", interpreter)
Unit_run ==
    /\ unit.pc = "ready"
    /\ unit.case.source # <<>>
    /\ Unit_run_ends(Run(interp, "run",
                         [source |-> unit.case.source, filename |-> REPL]))
    /\ UNCHANGED <<hostpc, hist, lexVars, imp>>

\* Parser(scan_tokens(source)).parse()
ParseOf(source) ==
    Steps([I |-> Interpreter(REPL, HostOS),
           p |-> Parser(scan_tokens(Lexer(source, REPL)).tokens, REPL),
           stack |-> <<Frame("parse", NoArgs)>>, ret |-> Nil, exc |-> NoExc],
          MaxSteps).ret

NextParse == Unit_run

InitParse == InitUnit(ParseCases)

SpecParse == InitParse /\ [][NextParse]_vars

----------------------------------------------------------------------------
(* The source texts of the single runs that exercise the evaluator *)

\* calls r=CALLEE(ARGS);print r; after the declarations of f (one
\* parameter) and g (none); the callees with their arity(), and values
\* that are not callable
CallBefore == <<"f", "u", "n", "c", "t", "i", "o", "n", " ", "f", "(", "a",
    ")", "{", "p", "r", "i", "n", "t", " ", "7", ";", "}", "f", "u", "n",
    "c", "t", "i", "o", "n", " ", "g", "(", ")", "{", "p", "r", "i", "n",
    "t", " ", "8", ";", "}">>

CalleeArity == (<<"f">> :> 1) @@ (<<"g">> :> 0) @@ (<<"l", "e", "n">> :> 1)

\* 1, nil, "s" and [1]
NonCallables == {<<"1">>, <<"n", "i", "l">>, <<DQ, "s", DQ>>, <<"[", "1",
    "]">>}

\* the argument lists (none, "a" and "a",2) with the number of arguments
ArgumentCount == (<<>> :> 0) @@ (<<DQ, "a", DQ>> :> 1) @@ (<<DQ, "a", DQ,
    ",", "2">> :> 2)

CallCases ==
    {Case("call", <<CallBefore, <<"r", "=">>, callee, <<"(">>, args, <<")",
        ";", "p", "r", "i", "n", "t", " ", "r", ";">>>>) :
        callee \in DOMAIN CalleeArity \cup NonCallables,
        args \in DOMAIN ArgumentCount}

\* the built-in callables whose call is evaluated as a Call node (print is
\* a keyword: no source text calls the callable print)
BuiltinCallees == {<<"p", "r", "i", "n", "t">>, <<"l", "e", "n">>}

VisitCallCases ==
    {[family |-> "visit_call", parts |-> <<callee, args>>, source |-> <<>>] :
        callee \in BuiltinCallees, args \in DOMAIN ArgumentCount}

\* x=LIST; then r=x[INDEX];print r; (IndexGet) or x[INDEX]=5;print x;
\* (IndexSet); the lists with their lengths
ListLength == (<<"[", "]">> :> 0) @@ (<<"[", "7", "]">> :> 1) @@ (<<"[",
    "7", ",", "8", "]">> :> 2)

\* 0, 1, 2 and -1
IndexTexts == {<<"0">>, <<"1">>, <<"2">>, <<"-", "1">>}

IndexCases ==
    {Case("index", <<<<"x", "=">>, list, <<";">>, <<"r", "=", "x", "[">>, index, <<
        "]", ";", "p", "r", "i", "n", "t", " ", "r", ";">>>>) :
        list \in DOMAIN ListLength, index \in IndexTexts}
    \cup {Case("index", <<<<"x", "=">>, list, <<";">>, <<"x", "[">>, index, <<
        "]", "=", "5", ";", "p", "r", "i", "n", "t", " ", "x", ";">>>>) :
            list \in DOMAIN ListLength, index \in IndexTexts}

\* x=[7,8];r=(o=OBJECT)[(j=INDEX)]=(w=5);print r,x;
\* the objects x, 1 and nil
SetObjects == {<<"x">>, <<"1">>, <<"n", "i", "l">>}

\* the indexes 0, 1, 2, -1, nil and "s"
SetIndexes == {<<"0">>, <<"1">>, <<"2">>, <<"-", "1">>, <<"n", "i", "l">>, <<
    DQ, "s", DQ>>}

SetCases ==
    {Case("set", <<<<"x", "=", "[", "7", ",", "8", "]", ";", "r", "=", "(",
        "o", "=">>, object, <<")", "[", "(", "j", "=">>, index, <<")", "]",
            "=", "(", "w", "=", "5", ")", ";", "p", "r", "i", "n", "t", " ",
            "r", ",", "x", ";">>>>) :
        object \in SetObjects, index \in SetIndexes}

\* r=(a=LEFT)OP(b=RIGHT);print r; for the logical operators
\* nil, true, false, 0, 2, 0.0, "", "s", [] and len
LogicalOperands ==
    {<<"n", "i", "l">>, <<"t", "r", "u", "e">>, <<"f", "a", "l", "s", "e">>, <<
        "0">>, <<"2">>, <<"0", ".", "0">>, <<DQ, DQ>>, <<DQ, "s", DQ>>, <<
            "[", "]">>, <<"l", "e", "n">>}

LogicalCases ==
    {Case("logical", <<<<"r", "=", "(", "a", "=">>, left, <<")">>, op, <<
        "(", "b", "=">>, right, <<")", ";", "p", "r", "i", "n", "t", " ",
            "r", ";">>>>) :
        left \in LogicalOperands, op \in {<<"|", "|">>, <<"&", "&">>},
        right \in LogicalOperands}

\* r=(a=LEFT)OP(b=RIGHT);print r; for the arithmetic operators -, * and /
\* nil, true, false, 3, 1.5, "s", [1] and len
ArithOperands == {<<"n", "i", "l">>, <<"t", "r", "u", "e">>, <<"f", "a",
    "l", "s", "e">>, <<"3">>, <<"1", ".", "5">>, <<DQ, "s", DQ>>, <<"[",
        "1", "]">>, <<"l", "e", "n">>}

ArithCases ==
    {Case("arith", <<<<"r", "=", "(", "a", "=">>, left, <<")">>, op, <<"(",
        "b", "=">>, right, <<")", ";", "p", "r", "i", "n", "t", " ", "r",
            ";">>>>) :
        left \in ArithOperands, op \in {<<"-">>, <<"*">>, <<"/">>},
        right \in ArithOperands}

\* r=(a=LEFT)OP(b=RIGHT);print r; for == and !=
\* nil, true, false, 0, 1, 1.0, "1", [1], [1.0], [true], [1,1] and len
EqualOperands ==
    {<<"n", "i", "l">>, <<"t", "r", "u", "e">>, <<"f", "a", "l", "s", "e">>, <<
        "0">>, <<"1">>, <<"1", ".", "0">>, <<DQ, "1", DQ>>, <<"[", "1", "]">>, <<
            "[", "1", ".", "0", "]">>,
     <<"[", "t", "r", "u", "e", "]">>, <<"[", "1", ",", "1", "]">>, <<"l",
         "e", "n">>}

EqualCases ==
    {Case("equal", <<<<"r", "=", "(", "a", "=">>, left, <<")">>, op, <<"(",
        "b", "=">>, right, <<")", ";", "p", "r", "i", "n", "t", " ", "r",
            ";">>>>) :
        left \in EqualOperands, op \in {<<"=", "=">>, <<"!", "=">>},
        right \in EqualOperands}

\* print [ELEMENTS]; for the list literals of at most two elements
\* nil, true, false, 1, 1.5, 2.0, "s", [nil] and [3]
ListElements ==
    {<<"n", "i", "l">>, <<"t", "r", "u", "e">>, <<"f", "a", "l", "s", "e">>, <<
        "1">>, <<"1", ".", "5">>, <<"2", ".", "0">>, <<DQ, "s", DQ>>, <<"[",
            "n", "i", "l", "]">>, <<"[", "3", "]">>}

ListTexts ==
    {<<"[", "]">>} \cup {<<"[">> \o e \o <<"]">> : e \in ListElements}
    \cup {<<"[">> \o e \o <<",">> \o f \o <<"]">> : e \in ListElements, f \in ListElements}

StringifyCases ==
    {Case("stringify", <<<<"p", "r", "i", "n", "t", " ">>, list, <<";">>>>) : list \in ListTexts}

EvalCases ==
    CallCases \cup VisitCallCases \cup IndexCases \cup SetCases \cup LogicalCases
    \cup ArithCases \cup EqualCases \cup StringifyCases

InitEval == InitUnit(EvalCases)

\* interpreter.evaluate(Call(Variable(CALLEE), paren, ARGS)): the node is
\* the one the parser makes of x(ARGS) with the name of the callee put in
Unit_visit_call_expr ==
    /\ unit.pc = "ready"
    /\ unit.case.family = "visit_call"
    /\ LET text == <<"x", "(">> \o unit.case.parts[2] \o <<")", ";">>
           node == ParseOf(text)[1].expression
           expr == [node EXCEPT !.callee.name.lexeme = unit.case.parts[1]]
       IN  Unit_run_ends(Run(interp, "evaluate", [expr |-> expr]))
    /\ UNCHANGED <<hostpc, hist, lexVars, imp>>

NextEval == Unit_run \/ Unit_visit_call_expr

SpecEval == InitEval /\ [][NextEval]_vars

----------------------------------------------------------------------------
(* The source texts of the single runs that exercise the statements, the   *)
(* scopes and the order of evaluation                                      *)

\* what comes before the block: function g(){x=5;} and then nothing, x=1;
\* or var x=1;
BlockBefore ==
    {Cat(<<<<"f", "u", "n", "c", "t", "i", "o", "n", " ", "g", "(", ")",
        "{", "x", "=", "5", ";", "}">>, outer>>) :
        outer \in {<<>>, <<"x", "=", "1", ";">>, <<"v", "a", "r", " ", "x",
            "=", "1", ";">>}}

\* the statements of the block: the declaration of x alone (var x=2; var x;
\* function x(){}), after or before an assignment of x, before a call of g,
\* before a return and before a fault
BlockBodies ==
    {<<"v", "a", "r", " ", "x", "=", "2", ";">>, <<"v", "a", "r", " ", "x",
        ";">>, <<"f", "u", "n", "c", "t", "i", "o", "n", " ", "x", "(", ")",
            "{", "}">>, <<"x", "=", "3", ";", "v", "a", "r", " ", "x", "=",
                "2", ";">>, <<"v", "a", "r", " ", "x", "=", "2", ";", "x",
                    "=", "3", ";">>,
     <<"v", "a", "r", " ", "x", "=", "2", ";", "g", "(", ")", ";">>, <<"v",
         "a", "r", " ", "x", "=", "2", ";", "r", "e", "t", "u", "r", "n",
         ";">>, <<"v", "a", "r", " ", "x", "=", "2", ";", "y", ";">>}

\* where the block is: at the top level, in a block and in the body of a
\* function that is called.  Each is the text before and the text after the
\* statements of the block.
BlockPlaces ==
    {<<<<"{">>, <<"}">>>>, <<<<"{", "v", "a", "r", " ", "z", "=", "0", ";",
        "{">>, <<"}", "}">>>>,
     <<<<"f", "u", "n", "c", "t", "i", "o", "n", " ", "f", "(", ")", "{",
         "v", "a", "r", " ", "z", "=", "0", ";", "{">>, <<"}", "}", "f",
             "(", ")", ";">>>>}

BlockCases ==
    {Case("block", <<before, place[1], body, place[2], <<"p", "r", "i", "n",
        "t", " ", "x", ";">>>>) :
        before \in BlockBefore, body \in BlockBodies, place \in BlockPlaces}

\* the operands whose evaluation can be seen: (a=L) and (b=R) with L and R
\* among 1, nil and "s"; the operand y faults, no y is bound
OrderOperands == {<<"1">>, <<"n", "i", "l">>, <<DQ, "s", DQ>>}

OrderOperators == {<<"+">>, <<"-">>, <<"<">>, <<"=", "=">>}

OrderBinaryCases ==
    {Case("order_binary",
          <<<<"r", "=", "(", "a", "=">>, left, <<")">>, op, <<"(", "b", "=">>, right, <<
              ")", ";", "p", "r", "i", "n", "t", " ", "r", ";">>>>) :
        left \in OrderOperands, op \in OrderOperators,
        right \in OrderOperands}

\* f takes two arguments, g none; both assign e when they are invoked
OrderBefore == <<"f", "u", "n", "c", "t", "i", "o", "n", " ", "f", "(", "p",
    ",", "q", ")", "{", "e", "=", "0", ";", "r", "e", "t", "u", "r", "n",
    " ", "p", ";", "}", "f", "u", "n", "c", "t", "i", "o", "n", " ", "g",
    "(", ")", "{", "e", "=", "0", ";", "}">>

\* the callees: f, g, the number 1 and the unbound h
OrderCallees == {<<"f">>, <<"g">>, <<"1">>, <<"h">>}

\* an operand that evaluates (1) and one that faults (the unbound y)
OrderFaulting == {<<"1">>, <<"y">>}

OrderCallCases ==
    {Case("order_call",
          <<OrderBefore, <<"r", "=", "(", "c", "=">>, callee, <<")", "(",
              "(", "a", "=">>, first, <<")", ",", "(", "b", "=">>, second,
            <<")", ")", ";", "p", "r", "i", "n", "t", " ", "r", ";">>>>) :
        callee \in OrderCallees, first \in OrderFaulting,
        second \in OrderFaulting}

OrderListCases ==
    {Case("order_list",
          <<<<"r", "=", "[", "(", "a", "=">>, first, <<")", ",", "(", "b",
              "=">>, second, <<")", ",", "(", "c", "=">>, third,
            <<")", "]", ";", "p", "r", "i", "n", "t", " ", "r", ";">>>>) :
        first \in OrderFaulting, second \in OrderFaulting,
        third \in OrderFaulting}

OrderCases == OrderBinaryCases \cup OrderCallCases \cup OrderListCases

\* print MSG; assert (c=COND),(m=MSG); print 8; and then print 9;
\* the conditions true, 1 and "s", and false, nil and 0
AssertTruthy == {<<"t", "r", "u", "e">>, <<"1">>, <<DQ, "s", DQ>>}

AssertFalsy == {<<"f", "a", "l", "s", "e">>, <<"n", "i", "l">>, <<"0">>}

\* the messages "m", 1, 2.0, nil, true and [nil]
AssertMessages ==
    {<<DQ, "m", DQ>>, <<"1">>, <<"2", ".", "0">>, <<"n", "i", "l">>, <<"t",
        "r", "u", "e">>, <<"[", "n", "i", "l", "]">>}

\* where the assert is: at the top level, in a block and in the body of a
\* function that is called
AssertPlaces ==
    {<<<<>>, <<>>>>, <<<<"{">>, <<"}">>>>, <<<<"f", "u", "n", "c", "t", "i",
        "o", "n", " ", "f", "(", ")", "{">>, <<"}", "f", "(", ")", ";">>>>}

AssertCases ==
    {Case("assert",
          <<<<"p", "r", "i", "n", "t", " ">>, message, <<";">>, place[1], <<
              "a", "s", "s", "e", "r", "t", " ", "(", "c", "=">>, condition,
            <<")", ",", "(", "m", "=">>, message, <<")", ";", "p", "r", "i",
                "n", "t", " ", "8", ";">>, place[2], <<"p", "r", "i", "n",
                    "t", " ", "9", ";">>>>) :
        condition \in AssertTruthy \cup AssertFalsy,
        message \in AssertMessages, place \in AssertPlaces}

\* SETUP WRITE print a,b; where SETUP binds a and b to lists [1,2] and WRITE
\* stores 5 at index 0 through a or through b.
\* the setups after which a and b hold the same list: var b=a; b=a; b is
\* what a function returns that was given a; b is an element of a list
\* that holds a
AliasSetups ==
    {<<"v", "a", "r", " ", "a", "=", "[", "1", ",", "2", "]", ";", "v", "a",
        "r", " ", "b", "=", "a", ";">>, <<"v", "a", "r", " ", "a", "=", "[",
            "1", ",", "2", "]", ";", "b", "=", "a", ";">>,
     <<"v", "a", "r", " ", "a", "=", "[", "1", ",", "2", "]", ";", "f", "u",
         "n", "c", "t", "i", "o", "n", " ", "i", "d", "(", "p", ")", "{",
         "r", "e", "t", "u", "r", "n", " ", "p", ";", "}", "v", "a", "r",
         " ", "b", "=", "i", "d", "(", "a", ")", ";">>,
     <<"v", "a", "r", " ", "a", "=", "[", "1", ",", "2", "]", ";", "v", "a",
         "r", " ", "c", "=", "[", "a", "]", ";", "v", "a", "r", " ", "b",
         "=", "c", "[", "0", "]", ";">>}

\* the setups after which a and b hold two lists: two list literals, and
\* one list literal evaluated twice
FreshSetups ==
    {<<"v", "a", "r", " ", "a", "=", "[", "1", ",", "2", "]", ";", "v", "a",
        "r", " ", "b", "=", "[", "1", ",", "2", "]", ";">>,
     <<"f", "u", "n", "c", "t", "i", "o", "n", " ", "m", "k", "(", ")", "{",
         "r", "e", "t", "u", "r", "n", " ", "[", "1", ",", "2", "]", ";",
         "}", "v", "a", "r", " ", "a", "=", "m", "k", "(", ")", ";", "v",
         "a", "r", " ", "b", "=", "m", "k", "(", ")", ";">>}

\* the writes through a name T, each the text before and the text after T:
\* T[0]=5; the same through the parameter of a function given T, in a
\* function that reads the global T, and in a closure that captured a
\* variable of a block that holds T
AliasWrites ==
    {<<<<>>, <<"[", "0", "]", "=", "5", ";">>>>, <<<<"f", "u", "n", "c",
        "t", "i", "o", "n", " ", "f", "(", "p", ")", "{", "p", "[", "0",
        "]", "=", "5", ";", "}", "f", "(">>, <<")", ";">>>>,
     <<<<"f", "u", "n", "c", "t", "i", "o", "n", " ", "g", "(", ")", "{">>, <<
         "[", "0", "]", "=", "5", ";", "}", "g", "(", ")", ";">>>>,
     <<<<"{", "v", "a", "r", " ", "l", "=">>, <<";", "f", "u", "n", "c",
         "t", "i", "o", "n", " ", "s", "(", ")", "{", "l", "[", "0", "]",
         "=", "5", ";", "}", "s", "(", ")", ";", "}">>>>}

AliasCases ==
    {Case("alias", <<setup, write[1], target, write[2], <<"p", "r", "i",
        "n", "t", " ", "a", ",", "b", ";">>>>) :
        setup \in AliasSetups \cup FreshSetups, write \in AliasWrites,
        target \in {<<"a">>, <<"b">>}}

\* return; and return 1; where no call is active (at the top level, in a
\* block, in an if, in a while) and in the body of a function that is
\* called; each place is the text before and the text after the statement
ReturnPlaces ==
    {<<<<>>, <<>>>>, <<<<"{">>, <<"}">>>>, <<<<"i", "f", "(", "t", "r", "u",
        "e", ")">>, <<>>>>,
     <<<<"w", "h", "i", "l", "e", "(", "t", "r", "u", "e", ")", "{">>, <<"}">>>>, <<<<
         "f", "u", "n", "c", "t", "i", "o", "n", " ", "f", "(", ")", "{">>, <<
             "}", "f", "(", ")", ";">>>>,
     <<<<"f", "u", "n", "c", "t", "i", "o", "n", " ", "f", "(", ")", "{",
         "w", "h", "i", "l", "e", "(", "t", "r", "u", "e", ")", "{">>, <<
             "}", "}", "p", "r", "i", "n", "t", " ", "f", "(", ")", ";">>>>}

ReturnCases ==
    {Case("return", <<<<"p", "r", "i", "n", "t", " ", "0", ";">>, place[1], <<
        "r", "e", "t", "u", "r", "n">>, value, <<";">>, place[2],
                      <<"p", "r", "i", "n", "t", " ", "9", ";">>>>) :
        place \in ReturnPlaces, value \in {<<>>, <<" ", "1">>}}

\* xs=[7,8,9];i=1; and then an element read or written at an index that is
\* the variable i, a literal, or arithmetic on integers: i, 2, i+1, i-1,
\* i*2, 1+1; with each index the number it stands for
IndexArithmetic ==
    (<<"i">> :> 1) @@ (<<"2">> :> 2) @@ (<<"i", "+", "1">> :> 2) @@ (<<"i",
        "-", "1">> :> 0) @@ (<<"i", "*", "2">> :> 2)
    @@ (<<"1", "+", "1">> :> 2)

IndexArithCases ==
    {Case("index_arith", <<<<"x", "s", "=", "[", "7", ",", "8", ",", "9",
        "]", ";", "i", "=", "1", ";">>, use[1], index, use[2]>>) :
        index \in DOMAIN IndexArithmetic,
        use \in {<<<<"r", "=", "x", "s", "[">>, <<"]", ";", "p", "r", "i",
            "n", "t", " ", "r", ";">>>>, <<<<"x", "s", "[">>, <<"]", "=",
                "5", ";", "p", "r", "i", "n", "t", " ", "x", "s", "[", "0",
                "]", ",", "x", "s", "[", "1", "]", ",", "x", "s", "[", "2",
                "]", ";">>>>}}

\* the counting loop over a list of two and of three elements
CountingLoopCases ==
    {Case("counting_loop",
          <<<<"x", "s", "=">>, list, <<";", "f", "o", "r", "(", "v", "a",
              "r", " ", "i", "=", "0", ";", "i", "<">>, n, <<";", "i", "=",
                  "i", "+", "1", ")", "p", "r", "i", "n", "t", " ", "x",
                  "s", "[", "i", "]", ";">>>>) :
        <<list, n>> \in {<<<<"[", "7", ",", "8", "]">>, <<"2">>>>, <<<<"[",
            "7", ",", "8", ",", "9", "]">>, <<"3">>>>}}

ProgCases ==
    BlockCases \cup OrderCases \cup AssertCases \cup AliasCases
        \cup ReturnCases \cup IndexArithCases \cup CountingLoopCases

NextProg == Unit_run

InitProg == InitUnit(ProgCases)

SpecProg == InitProg /\ [][NextProg]_vars

----------------------------------------------------------------------------
(* Claims about the lexer *)

EOFCount(tokens) == Cardinality({i \in 1..Len(tokens) : tokens[i].type = "EOF"})

\* C3: for every source text, lexical errors included, scan_tokens returns
\* without raising, and the token list it returns holds exactly one EOF
\* token, in last position.
C3_ScanTokensTotal ==
    /\ lxpc # "raised"
    /\ lxpc = "done" =>
        /\ EOFCount(lx.tokens) = 1
        /\ lx.tokens[Len(lx.tokens)].type = "EOF"

\* the 1-based number of the line of the character at offset start (counted
\* from 0): one more than the newlines before it
SourceLineOf(source, start) ==
    1 + Cardinality({i \in 1..start : source[i] = NL})

\* C21: every token a turn of the scanning loop emits carries as line the
\* number of the source line on which its first character lies, a string
\* token that spans several lines included.
C21_TokenLineIsLineOfStart ==
    [][(ScanToken /\ Len(lx'.tokens) > Len(lx.tokens)) =>
        lx'.tokens[Len(lx'.tokens)].line
            = SourceLineOf(lx'.source, lx'.start)]_vars

----------------------------------------------------------------------------
(* Claims about the host, the environments and the calls.  They read the   *)
(* log of the interpreter: the events of every step it has taken.          *)

Log == interp.log

Events(kind) == {i \in 1..Len(Log) : Log[i].ev = kind}

\* the texts the program has printed, oldest first
Printed ==
    LET prints == SelectSeq(interp.out, LAMBDA o : o.kind = "print")
    IN  [i \in 1..Len(prints) |-> prints[i].text]

Faulted == \E i \in 1..Len(interp.out) : interp.out[i].kind = "Error"

\* C1: when a runtime fault is raised during interpret at the prompt, the
\* diagnostic is printed and the host process stays alive: run_prompt goes
\* on to read the next line (or has ended by exit), it is not killed.
C1_FaultKeepsPromptAlive ==
    (hist # <<>> /\ Faulted) => hostpc \in {"prompt", "exited"}

\* C2: if the parser dropped a statement of a source, run does not reach
\* evaluation: the interpreter executes no statement of that source.
C2_DroppedStatementAbortsRun ==
    \A i \in Events("run") :
        Log[i].dropped > 0 => ~(i < Len(Log) /\ Log[i + 1].ev = "exec")

\* the environments from e outwards to the globals
RECURSIVE Chain(_, _)
Chain(envs, e) ==
    IF e = 0 THEN <<>> ELSE <<e>> \o Chain(envs, envs[e].enclosing)

\* the bindings of a heap of environments: <<environment, name>>
Bindings(envs) ==
    UNION {{<<e, n>> : n \in DOMAIN envs[e].values} : e \in 1..Len(envs)}

\* the positions of chain whose environment binds name
BoundIn(envs, chain, name) ==
    {j \in 1..Len(chain) : name \in DOMAIN envs[chain[j]].values}

Least(S) == CHOOSE i \in S : \A j \in S : i <= j

\* every binding of before other than b is in after with the same value
SameExcept(before, after, b) ==
    \A c \in Bindings(before) \ {b} :
        /\ c \in Bindings(after)
        /\ after[c[1]].values[c[2]] = before[c[1]].values[c[2]]

\* C4: an Assign to a name bound nowhere in the current chain creates
\* exactly one binding, in the globals environment; an Assign to a name
\* bound in the chain updates the innermost such binding and creates none.
C4_AssignBindsGlobalOrInnermost ==
    \A i \in Events("assign") :
        LET a == Log[i]
            chain == Chain(a.before, a.environment)
            bound == BoundIn(a.before, chain, a.name)
            target == IF bound = {} THEN interp.globals
                      ELSE chain[Least(bound)]
        IN  /\ Len(a.after) = Len(a.before)
            /\ Bindings(a.after) \ Bindings(a.before) =
                   IF bound = {} THEN {<<interp.globals, a.name>>} ELSE {}
            /\ a.after[target].values[a.name] = a.value
            /\ SameExcept(a.before, a.after, <<target, a.name>>)

\* an unbound name assigned two blocks deep, and a name bound twice in the
\* chain assigned where its innermost binding is not the current environment
C4_Witness ==
    /\ \E i \in Events("assign") :
        /\ BoundIn(Log[i].before, Chain(Log[i].before, Log[i].environment),
                   Log[i].name) = {}
        /\ Len(Chain(Log[i].before, Log[i].environment)) >= 3
    /\ \E i \in Events("assign") :
        LET bound == BoundIn(Log[i].before,
                             Chain(Log[i].before, Log[i].environment),
                             Log[i].name)
        IN  Cardinality(bound) >= 2 /\ Least(bound) >= 2

\* C5: whenever execute_block exits (normal completion, Return unwinding,
\* runtime fault) the current environment is the one that was current when
\* the block was entered; after a user-defined call, it is the caller's.
C5_BlockRestoresEnvironment ==
    /\ \A i \in Events("block_exit") : Log[i].environment = Log[i].entered
    /\ \A i \in Events("call_exit") : Log[i].environment = Log[i].caller

\* blocks have been left in each of the three ways, and a call has returned
C5_Witness ==
    /\ \A how \in {"ok", "ReturnValue", "RuntimeError"} :
        \E i \in Events("block_exit") : Log[i].how = how
    /\ \E i \in Events("call_exit") : Log[i].how = "ReturnValue"

\* C6: every invocation of a function value created while E was current
\* runs in a fresh environment whose parent is E, whatever the caller's
\* environment; the counter closure yields 1, 2, 3 on successive calls, a
\* second closure starts at 1 and leaves the first one's count alone.
C6_CallRunsInChildOfClosure ==
    /\ \A c \in Events("call") :
        /\ Log[c].fresh
        /\ \A f \in Events("function") :
            Log[f].fn = Log[c].fn => Log[c].enclosing = Log[f].environment
    /\ hist = <<LineCounter, LineCount>> =>
        Printed = << <<"1">>, <<"2">>, <<"3">>, <<"1">>, <<"4">> >>

\* the counter program has run, with calls made from an environment other
\* than the one their function was created in
C6_Witness ==
    /\ hist = <<LineCounter, LineCount>>
    /\ \E c \in Events("call") : Log[c].caller # Log[c].enclosing

\* C7: a Return executed while a user-defined call is active ends exactly
\* the innermost active call with the carried value: up to the exit of that
\* call no statement runs and no call starts; a body that completes without
\* Return yields nil, and the callers go on (g, which calls f and falls
\* through, yields nil after f returned 1 from inside a loop and a block).
C7_ReturnEndsInnermostCall ==
    /\ \A i \in Events("return") :
        Log[i].call # 0 =>
            \E j \in Events("call_exit") :
                /\ j > i
                /\ Log[j].call = Log[i].call
                /\ Log[j].how = "ReturnValue"
                /\ Log[j].value = Log[i].value
                /\ \A k \in (i + 1)..(j - 1) :
                    Log[k].ev \in {"block_exit", "import_exit"}
    /\ \A j \in Events("call_exit") : Log[j].how = "ok" => Log[j].value = Nil
    /\ hist = <<LineReturn>> => Printed = << <<"1">>, <<"n", "i", "l">> >>

\* a Return has unwound through blocks to its call, a call has fallen
\* through, and the program that nests both has run
C7_Witness ==
    /\ hist = <<LineReturn>>
    /\ \E i \in Events("return") :
        /\ Log[i].call # 0
        /\ Log[i + 1].ev = "block_exit" /\ Log[i + 2].ev = "block_exit"
    /\ \E j \in Events("call_exit") : Log[j].how = "ok"

\* C8: the top-level var and function declarations of an imported file that
\* has run to its end are bound in the globals environment, wherever the
\* import statement was executed.
C8_ImportDefinesInGlobals ==
    \A i \in Events("run_exit") :
        Log[i].filename # REPL =>
            \A n \in 1..Len(Log[i].statements) :
                Log[i].statements[n].kind \in {"Var", "Function"} =>
                    Log[i].statements[n].name.lexeme
                        \in DOMAIN interp.envs[interp.globals].values

\* C9: after an import statement on a path on which the importer keeps
\* executing (the file completed, or a Return in it unwound into a call of
\* the importer), the current filename is what it was before the import.
C9_ImportRestoresFilename ==
    \A i \in Events("import_exit") :
        (Log[i].how = "ok" \/ (Log[i].how = "ReturnValue" /\ Log[i].call # 0))
            => Log[i].filename = Log[i].before

----------------------------------------------------------------------------
(* Claim about import resolution *)

\* the base directories in the order of the claim
ResolutionBases ==
    LET I == imp.before
    IN  (IF I.filename # REPL /\ I.filename # UNKNOWN
         THEN <<dirname(abspath(I.os.cwd, I.filename))>> ELSE <<>>)
        \o <<I.os.cwd>>
        \o (IF I.os.MODULESPATH = <<>> THEN <<>>
            ELSE split(I.os.MODULESPATH, ";"))

\* candidate 2b - 1 is PATH in base b, candidate 2b is PATH + '.ms' there
Candidate(n) ==
    LET test_path == join(ResolutionBases[(n + 1) \div 2], imp.module)
    IN  IF n % 2 = 1 THEN test_path ELSE test_path \o <<".", "m", "s">>

Hits ==
    {n \in 1..(2 * Len(ResolutionBases)) :
        /\ n % 2 = 1 \/ ~endswith(imp.module, <<".", "m", "s">>)
        /\ isfile(imp.before.os, Candidate(n))}

----------------------------------------------------------------------------
(* Claims about the parser.  They read the log of the single run: its run  *)
(* event keeps the tokens, the diagnostics and the statements of parse.    *)

\* the run event of the source text of the single run
UnitRun == Log[Least(Events("run"))]

\* the diagnostics that do not make the parser give the statement up
CapMessages ==
    {Msg("Can't have more than 255 parameters.", <<>>),
     Msg("Can't have more than 255 arguments.", <<>>)}

SyntaxErrors(diags) ==
    {n \in 1..Len(diags) : diags[n].message \notin CapMessages}

\* C11: a statement in which the parser reports a syntax error, 'Invalid
\* assignment target' included, contributes no node to the list parse
\* returns: of print 0; S print 9; only the two print statements remain.
C11_FailedStatementContributesNoNode ==
    (unit.pc = "done" /\ unit.case.family = "statement") =>
        (SyntaxErrors(UnitRun.diags) # {} =>
            /\ Len(UnitRun.statements) = 2
            /\ \A n \in 1..2 : UnitRun.statements[n].kind = "Print")

\* the parser with its cursor at c is at a statement boundary of tokens
AtBoundary(tokens, c) ==
    \/ tokens[c + 1].type = "EOF"
    \/ c > 0 /\ tokens[c].type = "SEMICOLON"
    \/ tokens[c + 1].type \in SyncTypes

\* C12: when synchronize returns the parser is at EOF, or just after a ';',
\* or at a function/while/for/if/return/print token, and among the tokens
\* it discarded (from the token the error was reported at on) there is no
\* such keyword and no token after the first ';'.
C12_SynchronizeStopsAtFirstBoundary ==
    \A i \in Events("run") :
        \A n \in 1..Len(Log[i].syncs) :
            LET tokens == Log[i].tokens
                sync == Log[i].syncs[n]
                discarded == (sync.from + 1)..sync.to
            IN  /\ AtBoundary(tokens, sync.to)
                /\ \A j \in discarded :
                    /\ tokens[j].type \notin SyncTypes
                    /\ tokens[j].type = "SEMICOLON" => j = sync.to

\* the text { I ; while (C) { B ; E ; } } of the parts of a for loop, with
\* what the claim says is left out when a clause is absent
ForDesugared(parts) ==
    LET I == parts[3]
        C == parts[5]
        E == parts[7]
        B == parts[9]
        body == IF E # <<>> THEN <<"{">> \o B \o E \o <<";", "}">> ELSE B
        loop == <<"w", "h", "i", "l", "e", "(">> \o (IF C # <<>> THEN C ELSE <<
            "t", "r", "u", "e">>) \o <<")">> \o body
    IN  parts[1]
        \o (IF I # <<>> THEN <<"{">> \o I \o <<";">> \o loop \o <<"}">> ELSE loop)

\* the events of the log that mark an evaluation of C (the assignment to
\* c), an execution of B (the print) and an evaluation of E (the
\* assignment to n)
ForMarks ==
    LET mark(e) ==
            IF e.ev = "assign" /\ e.name = <<"c">> THEN "C"
            ELSE IF e.ev = "exec" /\ e.kind = "Print" THEN "B"
            ELSE IF e.ev = "assign" /\ e.name = <<"n">> THEN "E"
            ELSE "-"
        marks == [j \in 1..Len(Log) |-> mark(Log[j])]
    IN  SelectSeq(marks, LAMBDA m : m # "-")

\* C20: for(I;C;E)B parses to the tree of {I; while(C){B;E;}} with true for
\* an absent C, B alone for an absent E and no outer block for an absent I;
\* E is evaluated after every execution of B and before the next
\* evaluation of C, and the variable of a var initializer is not bound in
\* the enclosing environment after the loop.
C20_ForIsDesugaredWhile ==
    (unit.pc = "done" /\ unit.case.family = "for") =>
        LET parts == unit.case.parts
            I == parts[3]
            C == parts[5]
            E == parts[7]
            node == UnitRun.statements[Len(UnitRun.statements)]
            loop == IF I # <<>> THEN node.statements[2] ELSE node
            B == ParseOf(parts[9])[1]
            marks == ForMarks
            after(m) ==
                IF m = "C" THEN "B"
                ELSE IF m = "B" /\ E # <<>> THEN "E"
                ELSE IF C # <<>> THEN "C" ELSE "B"
        IN  /\ UnitRun.diags = <<>>
            /\ UnitRun.statements = ParseOf(ForDesugared(parts))
            /\ I # <<>> =>
                /\ node.kind = "Block"
                /\ Len(node.statements) = 2
                /\ node.statements[1].kind \in {"Var", "ExpressionStmt"}
            /\ loop.kind = "While"
            /\ C = <<>> => loop.condition = Expr_Literal(BoolV(TRUE))
            /\ loop.body =
                 IF E # <<>>
                 THEN Stmt_Block(<<B, ParseOf(E \o <<";">>)[1]>>)
                 ELSE B
            /\ \A j \in 1..(Len(marks) - 1) : marks[j + 1] = after(marks[j])
            /\ marks # <<>> => marks[1] = IF C # <<>> THEN "C" ELSE "B"
            /\ (unit.k = "ok" /\ I = <<"v", "a", "r", " ", "i", "=", "0">>) =>
                 IF parts[1] = <<>>
                 THEN <<"i">> \notin DOMAIN interp.envs[interp.globals].values
                 ELSE interp.envs[interp.globals].values[<<"i">>] = IntV(0)

\* a loop with the three clauses and a var initializer that shadows a
\* global has run to its end, and a loop without condition is running
C20_Witness ==
    /\ unit.pc = "done"
    /\ unit.case.family = "for"
    /\ unit.case.parts[1] # <<>>
    /\ unit.case.parts[3] = <<"v", "a", "r", " ", "i", "=", "0">>
    /\ unit.case.parts[5] # <<>>
    /\ unit.case.parts[7] # <<>>
    /\ unit.k = "ok"
    /\ ForMarks = <<"C", "B", "E", "C", "B", "E", "C">>
    /\ Printed = << <<"0">>, <<"1">> >>

\* C26: parse returns for every token list, and every call of declaration,
\* all of them made at a token other than EOF, leaves the cursor at least
\* one token further than it found it, by itself or by synchronize, also
\* when a block is not closed at the end of the input and when the error is
\* inside nested blocks.
C26_DeclarationAdvances ==
    unit.pc = "done" =>
        /\ Events("run") # {}
        /\ \A n \in 1..Len(UnitRun.decls) :
            LET decl == UnitRun.decls[n]
            IN  /\ UnitRun.tokens[decl.from + 1].type # "EOF"
                /\ decl.to > decl.from

\* { { 1 1: an error inside two blocks that the end of the input leaves
\* open; declaration has been called three times and synchronize has moved
\* the cursor of the innermost call to the end
C26_Witness ==
    /\ unit.pc = "done"
    /\ unit.case.source = <<"{", "{", "1", " ", "1", " ">>
    /\ Len(UnitRun.decls) = 3
    /\ UnitRun.syncs[1] = [from |-> 3, to |-> 4]
    /\ UnitRun.decls[1] = [from |-> 2, to |-> 4]
    /\ UnitRun.tokens[5].type = "EOF"

----------------------------------------------------------------------------
(* Claims about the evaluator.  They read the single run of a source text  *)
(* of a family: its parts, the faults it printed and its log.              *)

\* the messages of the runtime faults the run printed
Faults ==
    {interp.out[i].message :
        i \in {j \in 1..Len(interp.out) : interp.out[j].kind = "Error"}}

\* the values assigned to name, oldest first
Assigned(name) ==
    LET assigns == SelectSeq(Log, LAMBDA e : e.ev = "assign" /\ e.name = name)
    IN  [i \in 1..Len(assigns) |-> assigns[i].value]

\* C13: a call with n arguments of a callable of arity a >= 0, n # a,
\* raises the fault 'Expected a args but got n.' and the callable is not
\* invoked (no environment is made, no parameter bound, no statement of the
\* body runs); a callable of arity -1 is invoked whatever n is; a callee
\* that is not a callable raises 'Can only call functions and classes.'.
C13_ArityIsChecked ==
    /\ (unit.pc = "done" /\ unit.case.family = "call") =>
        LET callee == unit.case.parts[3]
            n == ArgumentCount[unit.case.parts[5]]
            refused(message) ==
                /\ Faults = {message}
                /\ Events("call") = {}
                /\ Len(interp.envs) = 1
                /\ Printed = <<>>
                /\ Assigned(<<"r">>) = <<>>
        IN  IF callee \in NonCallables
            THEN refused(Msg("Can only call functions and classes.", <<>>))
            ELSE IF n # CalleeArity[callee]
            THEN refused(Msg("Expected {} args but got {}.",
                             <<IntToChars(CalleeArity[callee]),
                               IntToChars(n)>>))
            ELSE /\ Faults = {}
                 /\ callee \in {<<"f">>, <<"g">>} =>
                        /\ Cardinality(Events("call")) = 1
                        /\ Len(Printed) = 2
    /\ (unit.pc = "done" /\ unit.case.family = "visit_call") =>
        LET n == ArgumentCount[unit.case.parts[2]]
        IN  IF unit.case.parts[1] = <<"p", "r", "i", "n", "t">>
            THEN /\ unit.k = "ok"
                 /\ Printed = <<JoinSpace(SubSeq(<<<<"a">>, <<"2">>>>, 1, n))>>
            ELSE IF n # 1
            THEN /\ unit.k = "RuntimeError"
                 /\ unit.v.message = Msg("Expected {} args but got {}.",
                                         <<<<"1">>, IntToChars(n)>>)
            ELSE unit.k = "ok" /\ unit.v = IntV(1)

\* f, which has one parameter, has been called with two arguments
C13_Witness ==
    /\ unit.pc = "done"
    /\ unit.case.family = "call"
    /\ unit.case.parts[3] = <<"f">>
    /\ ArgumentCount[unit.case.parts[5]] = 2
    /\ unit.k = "SystemExit"
    /\ Events("call") = {}

\* C14: for a list xs of length n, xs[n] and xs[-1], read (IndexGet) and
\* written (IndexSet), raise the fault 'List index out of range.' and leave
\* the list as it was.
C14_IndexOutOfRange ==
    (unit.pc = "done" /\ unit.case.family = "index") =>
        LET n == ListLength[unit.case.parts[2]]
            index == unit.case.parts[5]
        IN  (index = <<"-", "1">> \/ index = IntToChars(n)) =>
                /\ Faults = {Msg("List index out of range.", <<>>)}
                /\ interp.lists[1] = SubSeq(<<IntV(7), IntV(8)>>, 1, n)
                /\ Printed = <<>>

\* the names the run has assigned to, oldest first
AssignedNames ==
    LET assigns == SelectSeq(Log, LAMBDA e : e.ev = "assign")
    IN  [i \in 1..Len(assigns) |-> assigns[i].name]

\* C15: IndexSet evaluates the object, the index and the value, in that
\* order, all three before any type or bounds fault is raised; when the
\* object is a list and the index is in range the value is stored at the
\* index and is the value of the expression.
C15_IndexSetEvaluatesAllThree ==
    (unit.pc = "done" /\ unit.case.family = "set") =>
        LET object == unit.case.parts[2]
            index == unit.case.parts[4]
        IN  /\ Len(AssignedNames) >= 4
            /\ SubSeq(AssignedNames, 1, 4) = <<<<"x">>, <<"o">>, <<"j">>, <<
                "w">>>>
            /\ (object = <<"x">> /\ index \in {<<"0">>, <<"1">>}) =>
                /\ Faults = {}
                /\ interp.lists[1] =
                       IF index = <<"0">> THEN <<IntV(5), IntV(8)>>
                       ELSE <<IntV(7), IntV(5)>>
                /\ Assigned(<<"r">>) = <<IntV(5)>>

\* C16: || with a truthy left operand yields true and && with a falsy left
\* operand yields false, the right operand not being evaluated; otherwise
\* the right operand is evaluated exactly once and the result is its
\* truthiness.  The result is a boolean, never the operand itself.
C16_LogicalShortCircuitsToBoolean ==
    (unit.pc = "done" /\ unit.case.family = "logical") =>
        LET or == unit.case.parts[4] = <<"|", "|">>
            left == Assigned(<<"a">>)
            right == Assigned(<<"b">>)
            result == Assigned(<<"r">>)
        IN  /\ Faults = {}
            /\ Len(left) = 1
            /\ Len(result) = 1
            /\ result[1].t = "bool"
            /\ IF or = is_truthy(left[1])
               THEN right = <<>> /\ result[1] = BoolV(or)
               ELSE Len(right) = 1 /\ result[1] = BoolV(is_truthy(right[1]))

\* nil || "s": the right operand has been evaluated and the result is
\* true, not the string
C16_Witness ==
    /\ unit.pc = "done"
    /\ unit.case.family = "logical"
    /\ unit.case.parts[4] = <<"|", "|">>
    /\ Assigned(<<"a">>) = <<Nil>>
    /\ Assigned(<<"b">>) = <<StrV(<<"s">>)>>
    /\ Assigned(<<"r">>) = <<BoolV(TRUE)>>
    /\ Printed = << <<"t", "r", "u", "e">> >>

\* the value is of the integer or of the float variant
IsIntOrFloat(value) == value.t \in {"int", "float"}

\* C17: binary -, * and / raise the fault 'Operands must be numbers.' and
\* produce no value whenever an operand is not of the integer or float
\* variant: nil, a bool, a string, a list or a callable.
C17_ArithmeticRejectsNonNumbers ==
    (unit.pc = "done" /\ unit.case.family = "arith") =>
        LET left == Assigned(<<"a">>)
            right == Assigned(<<"b">>)
        IN  /\ Len(left) = 1
            /\ Len(right) = 1
            /\ (~IsIntOrFloat(left[1]) \/ ~IsIntOrFloat(right[1])) =>
                /\ Faults = {Msg("Operands must be numbers.", <<>>)}
                /\ Assigned(<<"r">>) = <<>>
                /\ Printed = <<>>

\* equality by variant: nil equals nil only, an integer and a float are
\* equal iff numerically equal, values of different variants are otherwise
\* unequal, lists are equal iff of the same length and element-wise equal
RECURSIVE EqualByVariant(_, _, _)
EqualByVariant(lists, a, b) ==
    IF IsIntOrFloat(a) /\ IsIntOrFloat(b)
    THEN FloatEq(ToFloat(a), ToFloat(b))
    ELSE IF a.t # b.t THEN FALSE
    ELSE IF a.t = "list"
    THEN /\ Len(lists[a.ref]) = Len(lists[b.ref])
         /\ \A i \in 1..Len(lists[a.ref]) :
                EqualByVariant(lists, lists[a.ref][i], lists[b.ref][i])
    ELSE a = b

\* C18: == is equality by variant and != its negation, whichever operand
\* is on the left: true == 1 and false == 0 are false, [1] == [1.0] is true.
C18_EqualityIsByVariant ==
    (unit.pc = "done" /\ unit.case.family = "equal") =>
        LET left == Assigned(<<"a">>)
            right == Assigned(<<"b">>)
            equal == EqualByVariant(interp.lists, left[1], right[1])
        IN  /\ Faults = {}
            /\ Len(left) = 1
            /\ Len(right) = 1
            /\ Assigned(<<"r">>) =
                 <<BoolV(IF unit.case.parts[4] = <<"=", "=">> THEN equal
                         ELSE ~equal)>>

RECURSIVE ListText(_, _), ListTextElems(_, _)
\* the conversion the claim states: a list is its elements' conversions
\* between brackets, separated by a comma and a space; every other value is
\* converted as stringify converts it at top level
ListText(lists, obj) ==
    IF obj.t = "list"
    THEN <<"[">> \o ListTextElems(lists, lists[obj.ref]) \o <<"]">>
    ELSE stringify(lists, obj)

ListTextElems(lists, elems) ==
    IF elems = <<>> THEN <<>>
    ELSE IF Len(elems) = 1 THEN ListText(lists, elems[1])
    ELSE ListText(lists, elems[1]) \o <<",", " ">>
         \o ListTextElems(lists, Tail(elems))

\* C19: the text printed for a list is the bracketed, comma-separated
\* sequence of the conversions of its elements, nested lists included (nil
\* as nil, bools as true/false, a float with zero fraction without '.0',
\* strings as their text); the text printed for a list of numbers, bools
\* and nil is again a list literal, of literals equal to the elements.
C19_ListStringifiesRecursively ==
    (unit.pc = "done" /\ unit.case.family = "stringify") =>
        LET list == ListV(Len(interp.lists))
            elems == interp.lists[list.ref]
            statements == ParseOf(Printed[1] \o <<";">>)
            literal == statements[1].expression
        IN  /\ Faults = {}
            /\ Len(Printed) = 1
            /\ Printed[1] = ListText(interp.lists, list)
            /\ (\A i \in 1..Len(elems) :
                    elems[i].t \in {"nil", "bool", "int", "float"}) =>
                /\ Len(statements) = 1
                /\ statements[1].kind = "ExpressionStmt"
                /\ literal.kind = "ListLiteral"
                /\ Len(literal.elements) = Len(elems)
                /\ \A i \in 1..Len(elems) :
                    /\ literal.elements[i].kind = "Literal"
                    /\ EqualByVariant(interp.lists,
                                      literal.elements[i].value, elems[i])

----------------------------------------------------------------------------
(* Claims about the statements, the scopes and the order of evaluation.    *)
(* They read the log of the single run of a source text.                   *)

\* the names that the var and function declarations directly in a block
\* declare
Declared(body) ==
    {body[i].name.lexeme :
        i \in {j \in 1..Len(body) : body[j].kind \in {"Var", "Function"}}}

\* the environments around the block whose exit is the event x, from the
\* parent of the block's environment outwards
Enclosing(x) ==
    Chain(Log[x].before, Log[x].before[Log[x].block].enclosing)

\* the assignments made while the block whose exit is the event x ran
AssignsIn(x) == {j \in Events("assign") : Log[x].started < j /\ j < x}

\* the environment the assignment a wrote to
AssignTarget(a) ==
    LET chain == Chain(a.before, a.environment)
        bound == BoundIn(a.before, chain, a.name)
    IN  IF bound = {} THEN interp.globals ELSE chain[Least(bound)]

\* whether the environment e binds name alike in the heaps before and after
SameBinding(before, after, e, name) ==
    /\ name \in DOMAIN before[e].values <=> name \in DOMAIN after[e].values
    /\ name \in DOMAIN before[e].values =>
        /\ after[e].values[name].t = before[e].values[name].t
        /\ after[e].values[name] = before[e].values[name]

\* whether the block whose exit is the event x assigned to name before its
\* own environment bound it
AssignedBeforeShadowing(x, name) ==
    \E j \in AssignsIn(x) :
        LET chain == Chain(Log[j].before, Log[j].environment)
        IN  /\ Log[j].name = name
            /\ \E k \in 1..Len(chain) : chain[k] = Log[x].block
            /\ name \notin DOMAIN Log[j].before[Log[x].block].values

\* C22: after a block finishes (normally, by Return or by fault), every
\* environment of the enclosing chain binds the names declared by var and
\* function directly in the block as it did before the block, and an outer
\* binding of such a name keeps its value unless the block assigned to it
\* before shadowing it.
C22_BlockVarDoesNotLeak ==
    \A x \in Events("block_exit") :
        \A name \in Declared(Log[x].body) :
            \A k \in 1..Len(Enclosing(x)) :
                LET e == Enclosing(x)[k]
                    before == Log[x].before
                    after == Log[x].after
                IN  /\ name \in DOMAIN before[e].values
                            <=> name \in DOMAIN after[e].values
                    /\ ~AssignedBeforeShadowing(x, name) =>
                            SameBinding(before, after, e, name)

\* C22 as amended: every environment of the enclosing chain binds a name
\* declared directly in the block as it did before the block (bound or not,
\* and to which value) unless an assignment made while the block ran wrote
\* to that name in that environment.
C22_BlockDeclarationsStayInside ==
    \A x \in Events("block_exit") :
        \A name \in Declared(Log[x].body) :
            \A k \in 1..Len(Enclosing(x)) :
                LET e == Enclosing(x)[k]
                IN  (\A j \in AssignsIn(x) :
                        ~(Log[j].name = name /\ AssignTarget(Log[j]) = e))
                    => SameBinding(Log[x].before, Log[x].after, e, name)

\* a block two environments below the globals, left by Return after it
\* declared a name that the globals bind too
C22_Witness ==
    \E x \in Events("block_exit") :
        \E name \in Declared(Log[x].body) :
            /\ Log[x].how = "ReturnValue"
            /\ name \in DOMAIN Log[x].after[Log[x].block].values
            /\ Len(Enclosing(x)) >= 2
            /\ name \in DOMAIN Log[x].before[interp.globals].values
            /\ AssignsIn(x) = {}

\* the names an expression of a family assigns when its operands are
\* evaluated in source order, each once, up to the first that faults, and
\* its checks are made after the operands
OrderExpected(family, parts) ==
    LET evaluates(text) == text # <<"y">>
        faultless == Faults = {}
    IN  CASE family = "order_binary" ->
               <<<<"a">>, <<"b">>>> \o (IF faultless THEN <<<<"r">>>> ELSE <<>>)
          [] family = "order_call" ->
               IF parts[3] = <<"h">> THEN <<>>
               ELSE IF ~evaluates(parts[5]) THEN <<<<"c">>>>
               ELSE IF ~evaluates(parts[7]) THEN <<<<"c">>, <<"a">>>>
               ELSE IF parts[3] = <<"f">> THEN <<<<"c">>, <<"a">>, <<"b">>, <<
                   "e">>, <<"r">>>>
               ELSE <<<<"c">>, <<"a">>, <<"b">>>>
          [] family = "order_list" ->
               IF ~evaluates(parts[2]) THEN <<>>
               ELSE IF ~evaluates(parts[4]) THEN <<<<"a">>>>
               ELSE IF ~evaluates(parts[6]) THEN <<<<"a">>, <<"b">>>>
               ELSE <<<<"a">>, <<"b">>, <<"c">>, <<"r">>>>

\* C23: sub-expressions are evaluated left to right, each exactly once: the
\* left operand of a Binary before the right one and both before any check
\* of their types; the callee of a Call before its arguments, the arguments
\* in source order and all before the callable is checked and invoked; the
\* elements of a ListLiteral in source order.
C23_EvaluationIsLeftToRight ==
    (unit.pc = "done"
        /\ unit.case.family \in {"order_binary", "order_call", "order_list"})
    => /\ AssignedNames = OrderExpected(unit.case.family, unit.case.parts)
       /\ Faults = {} <=> Len(Printed) = 1

\* f was called with two arguments: the callee, the arguments in order, the
\* body of f and the assignment of the result
C23_Witness ==
    /\ unit.pc = "done"
    /\ unit.case.family = "order_call"
    /\ AssignedNames = <<<<"c">>, <<"a">>, <<"b">>, <<"e">>, <<"r">>>>

\* C24: an Assert whose condition is truthy does not evaluate its message
\* and changes nothing; one whose condition is falsy evaluates the message
\* once and raises the fault 'Assertion failed: ' followed by the text of
\* the message's value (the text print shows for it), and no later
\* statement runs.
C24_AssertFaultsOnFalsy ==
    (unit.pc = "done" /\ unit.case.family = "assert") =>
        LET condition == unit.case.parts[6]
            message == unit.case.parts[2]
            globals == interp.envs[interp.globals].values
        IN  /\ Len(Printed) >= 1
            /\ condition \in AssertTruthy =>
                /\ AssignedNames = <<<<"c">>>>
                /\ Faults = {}
                /\ Printed = <<Printed[1], <<"8">>, <<"9">>>>
                /\ <<"m">> \notin DOMAIN globals
                /\ Len(interp.lists) = (IF message = <<"[", "n", "i", "l",
                    "]">> THEN 1 ELSE 0)
            /\ condition \in AssertFalsy =>
                /\ AssignedNames = <<<<"c">>, <<"m">>>>
                /\ Faults = {Msg("Assertion failed: {}", <<Printed[1]>>)}
                /\ Len(interp.out) = 2
                /\ Printed = <<Printed[1]>>

\* assert (c=0),(m=2.0); in the body of a function: the fault names 2, and
\* neither the rest of the body nor the statement after the call has run
C24_Witness ==
    /\ unit.pc = "done"
    /\ unit.case.family = "assert"
    /\ unit.case.parts[4] = <<"f", "u", "n", "c", "t", "i", "o", "n", " ",
        "f", "(", ")", "{">>
    /\ AssignedNames = <<<<"c">>, <<"m">>>>
    /\ Faults = {Msg("Assertion failed: {}", <<<<"2">>>>)}
    /\ Printed = <<<<"2">>>>

\* C25: lists are shared by reference: when b holds the list that a holds,
\* an IndexSet through either name (directly, through a parameter, in a
\* function that reads the name, in a closure) shows through both; every
\* evaluation of a ListLiteral yields a list of its own, so a write through
\* one of two such lists leaves the other as it was.
C25_ListsAreSharedByReference ==
    (unit.pc = "done" /\ unit.case.family = "alias") =>
        LET setup == unit.case.parts[1]
            target == unit.case.parts[3]
            globals == interp.envs[interp.globals].values
        IN  /\ Faults = {}
            /\ globals[<<"a">>].t = "list" /\ globals[<<"b">>].t = "list"
            /\ setup \in AliasSetups =>
                /\ globals[<<"a">>].ref = globals[<<"b">>].ref
                /\ Printed = <<<<"[", "5", ",", " ", "2", "]", " ", "[",
                    "5", ",", " ", "2", "]">>>>
            /\ setup \in FreshSetups =>
                /\ globals[<<"a">>].ref # globals[<<"b">>].ref
                /\ Printed = <<IF target = <<"a">> THEN <<"[", "5", ",",
                    " ", "2", "]", " ", "[", "1", ",", " ", "2", "]">>
                               ELSE <<"[", "1", ",", " ", "2", "]", " ",
                                   "[", "5", ",", " ", "2", "]">>>>

\* var b=a; and a write through b in a closure that captured a variable of
\* a block: a shows the write
C25_Witness ==
    /\ unit.pc = "done"
    /\ unit.case.family = "alias"
    /\ unit.case.parts[1] = <<"v", "a", "r", " ", "a", "=", "[", "1", ",",
        "2", "]", ";", "v", "a", "r", " ", "b", "=", "a", ";">>
    /\ unit.case.parts[2] = <<"{", "v", "a", "r", " ", "l", "=">>
    /\ unit.case.parts[3] = <<"b">>
    /\ interp.lists[interp.envs[interp.globals].values[<<"a">>].ref]
           = <<IntV(5), IntV(2)>>

\* C27: a run ends in one of two ways: every statement has completed, or a
\* runtime fault has been reported with its diagnostic and has ended the
\* process; a return statement executed while no call of a user-defined
\* function is active does not make the Return unwinding leave interpret.
C27_ReturnStaysInsideInterpret ==
    unit.pc = "done" =>
        \/ unit.k = "ok"
        \/ unit.k = "SystemExit" /\ Faults # {}

\* the text print shows for the elements 7, 8, 9 of which the one at index
\* written (if any, else -1) has become 5
ElementsText(written) ==
    LET text(n) == IF n = written THEN <<"5">>
                   ELSE IF n = 0 THEN <<"7">> ELSE IF n = 1 THEN <<"8">> ELSE <<
                       "9">>
    IN  text(0) \o <<" ">> \o text(1) \o <<" ">> \o text(2)

\* C28: an index computed by arithmetic on integers whose value is in
\* [0, length) is accepted by IndexGet and IndexSet and selects that
\* element; the counting loop for (var i = 0; i < n; i = i + 1) reads xs[i]
\* for every i in 0..n-1 without a fault.
C28_ArithmeticIndexSelectsElement ==
    /\ (unit.pc = "done" /\ unit.case.family = "index_arith") =>
        LET index == IndexArithmetic[unit.case.parts[3]]
            read == unit.case.parts[2] = <<"r", "=", "x", "s", "[">>
        IN  /\ Faults = {}
            /\ read => Printed = <<IF index = 0 THEN <<"7">>
                                   ELSE IF index = 1 THEN <<"8">> ELSE <<"9">>>>
            /\ ~read => Printed = <<ElementsText(index)>>
    /\ (unit.pc = "done" /\ unit.case.family = "counting_loop") =>
        /\ Faults = {}
        /\ Printed = IF unit.case.parts[4] = <<"2">> THEN <<<<"7">>, <<"8">>>>
                     ELSE <<<<"7">>, <<"8">>, <<"9">>>>

====
